---- MODULE Spec2Model ----
(***************************************************************************)
(* pbnsolve: the constraint-propagation search engine of a paint-by-number *)
(* (nonogram) solver.  The model follows solve.c (pbnsolve 1.01: the       *)
(* driver, the heuristic guess, try_everything, guess_cell, logic_solve),  *)
(* probe.c (trunk: probe, probe_cell, the probe pad) and pbnsolve.h (1.03: *)
(* the data structures).  job.c, line_lro.c and merge.c are not part of    *)
(* the sources at hand; the operators that stand for them follow the       *)
(* design document and are marked as such where they are defined.          *)
(***************************************************************************)
EXTENDS Integers, Sequences, FiniteSets, TLC

(***************************************************************************)
(* Bounds of the model.                                                    *)
(***************************************************************************)
NRows == 3
NCols == 5
NColor == 2
MaxRuns == 2
MaxRunLen == 2
MaxPainted == 6

(* pbnsolve.h: direction indices of a grid puzzle *)
D_ROW == 0
D_COL == 1
(* limits.h INT_MAX, used by the probe sequences as "no probe rated yet";  *)
(* any value above the largest cell count plays the same role              *)
INT_MAX == 2147483647

Colors == 0 .. (NColor - 1)
RowIx == 0 .. (NRows - 1)
ColIx == 0 .. (NCols - 1)
Pos == RowIx \X ColIx
Dirs == {D_ROW, D_COL}

(* sol->n[k]: number of lines of direction k; length of a line of direction k *)
NLines(k) == IF k = D_ROW THEN NRows ELSE NCols
LineLen(k) == IF k = D_ROW THEN NCols ELSE NRows
Lines == {<<k, i>> : k \in {D_ROW}, i \in RowIx} \cup {<<k, i>> : k \in {D_COL}, i \in ColIx}

(* sol->line[k][i][x]: the x-th cell of line i of direction k *)
LineCell(k, i, x) == IF k = D_ROW THEN <<i, x>> ELSE <<x, i>>

(* cell->line[k]: the index of the line of direction k through a cell *)
CellLine(cell, k) == IF k = D_ROW THEN cell[1] ELSE cell[2]

(***************************************************************************)
(* Clues.  A clue is a sequence of runs [len, col]; the clues of the model  *)
(* have at most MaxRuns runs of at most MaxRunLen cells each and fit the   *)
(* line (a clue whose mandatory gaps do not fit has negative slack).       *)
(***************************************************************************)
Run(L, nc) == [len : 1 .. L, col : 1 .. (nc - 1)]

RECURSIVE SumLen(_)
SumLen(cl) == IF cl = <<>> THEN 0 ELSE cl[1].len + SumLen(Tail(cl))


(* number of mandatory background cells between consecutive runs *)
Gap(cl, k) == IF cl[k].col = cl[k + 1].col THEN 1 ELSE 0

RECURSIVE SumGap(_, _)
SumGap(cl, k) == IF k >= Len(cl) THEN 0 ELSE Gap(cl, k) + SumGap(cl, k + 1)

(* Clue.slack: line length minus the minimum layout length *)
Slack(cl, L) == L - (SumLen(cl) + SumGap(cl, 1))

(* the clues of one to MaxRuns runs; those that fit a line of length L *)
AllClues == UNION {[1 .. m -> Run(MaxRunLen, NColor)] : m \in 1 .. MaxRuns}
ClueSet(L) == {cl \in AllClues : Slack(cl, L) >= 0}

(***************************************************************************)
(* Line solver (line_lro.c, modelled from the design document, 4.1).       *)
(* b is the line as a function 0..L-1 -> set of colours.                   *)
(***************************************************************************)
(* colour of cell x under placement p (start position of every run) *)
ColorAt(cl, p, x) ==
    IF \E k \in 1 .. Len(cl) : p[k] <= x /\ x < p[k] + cl[k].len
    THEN cl[CHOOSE k \in 1 .. Len(cl) : p[k] <= x /\ x < p[k] + cl[k].len].col
    ELSE 0

ValidPlacement(cl, b, L, p) ==
    /\ \A k \in 1 .. Len(cl) : p[k] + cl[k].len <= L
    /\ \A k \in 1 .. (Len(cl) - 1) : p[k] + cl[k].len + Gap(cl, k) <= p[k + 1]
    /\ \A x \in 0 .. (L - 1) : ColorAt(cl, p, x) \in b[x]

Placements(cl, b, L) ==
    {p \in [1 .. Len(cl) -> 0 .. (L - 1)] : ValidPlacement(cl, b, L, p)}

(* p is lexicographically no greater than q *)
LexLeq(p, q) ==
    \/ p = q
    \/ \E k \in 1 .. Len(p) : p[k] < q[k] /\ \A m \in 1 .. (k - 1) : p[m] = q[m]

NoPlacement == [ok |-> FALSE, p |-> <<>>]

(* left_solve: the lexicographically smallest placement, or NULL *)
left_solve(cl, b, L) ==
    LET V == Placements(cl, b, L)
    IN  IF V = {} THEN NoPlacement
        ELSE [ok |-> TRUE, p |-> CHOOSE p \in V : \A q \in V : LexLeq(p, q)]

(* right_solve: the lexicographically largest placement, or NULL *)
right_solve(cl, b, L) ==
    LET V == Placements(cl, b, L)
    IN  IF V = {} THEN NoPlacement
        ELSE [ok |-> TRUE, p |-> CHOOSE p \in V : \A q \in V : LexLeq(q, p)]

(* colours cell x may take between the leftmost and the rightmost placement: *)
(* the colour of every run whose range of positions covers x, background    *)
(* where x can lie in a gap                                                  *)
Overlap(cl, pl, pr, x) ==
    {cl[k].col : k \in {m \in 1 .. Len(cl) : pl[m] <= x /\ x < pr[m] + cl[m].len}}
    \cup
    (IF \E g \in 0 .. Len(cl) :
            /\ (g = 0 \/ x >= pl[g] + cl[g].len)
            /\ (g = Len(cl) \/ x < pr[g + 1])
     THEN {0} ELSE {})

(* lro_solve: the tightened line, or NULL on contradiction *)
lro_solve(cl, b, L) ==
    LET l == left_solve(cl, b, L)
        r == right_solve(cl, b, L)
    IN  IF ~l.ok THEN [ok |-> FALSE, b |-> b]
        ELSE [ok |-> TRUE,
              b |-> [x \in 0 .. (L - 1) |-> b[x] \cap Overlap(cl, l.p, r.p, x)]]


(***************************************************************************)
(* State.  puz->..., sol->... and the globals of solve.c, probe.c and      *)
(* merge.c; the configuration; the position of the driver.                 *)
(***************************************************************************)
VARIABLES
    ncolor,      \* puz->ncolor
    clue,        \* puz->clue[k][i]: the runs of every line
    cells,       \* Cell.n and Cell.bit of every cell
    nsolved,     \* puz->nsolved
    job,         \* puz->job: the queue of lines to work on
    jobindex,    \* Clue.jobindex of every line
    history,     \* puz->history, oldest entry first
    merge_list,  \* merge.c: the probe merge list
    merge_no,    \* merge.c: number of the current sibling probe
    merging,     \* merge.c: are changes being merged?
    probepad,    \* probe.c: the scratchpad of the probe sequence
    probing,     \* probe.c global / solve.c local: inside a probe sequence?
    maybacktrack, mayprobe, tryharder, mergeprobe, probelevel,
    useprobefn,  \* which of the two probe sequences the driver is built with
    colorpolicy, \* GC_MAX / GC_MIN / GC_RAND / GC_CONTRAST
    ratepolicy,  \* GR_SIMPLE / GR_ADHOC / GR_MATH
    nlines, guesses, probes, merges, backtracks,
    pc,          \* where the driver stands
    caller,      \* who called logic_solve
    ret,         \* value returned by solve
    pi, pj, pcol,                     \* probe cursor: i, j, c
    bestnleft, besti, bestj, bestc,   \* best probe so far
    foundbetter, ppass, pk, pneigh,   \* probe_cell / probe locals
    initcells,   \* the cell possibilities the puzzle was loaded with
    mark         \* the puzzle as it was before the guess of the probe in progress
                 \* (pre) and when probe_cell was entered (entry); the probes that
                 \* ended quiescent in this probe sequence (seq) and on the cell
                 \* being probed (sib); the cells as they were when the history
                 \* was last empty (top)

puzvars == <<ncolor, clue, initcells>>
cfgvars == <<maybacktrack, mayprobe, tryharder, mergeprobe, probelevel,
             useprobefn, colorpolicy, ratepolicy>>
machvars == <<cells, nsolved, job, jobindex, history, merge_list, merge_no, merging>>
cntvars == <<nlines, guesses, probes, merges, backtracks>>
curvars == <<pi, pj, pcol, bestnleft, besti, bestj, bestc, foundbetter,
             ppass, pk, pneigh>>
vars == <<puzvars, cfgvars, machvars, cntvars, curvars, probepad, probing,
          pc, caller, ret, mark>>

(* The part of the state the solver's subroutines work on, as one value *)
Cur ==
    [cells |-> cells, nsolved |-> nsolved, job |-> job, jobindex |-> jobindex,
     history |-> history, merge_list |-> merge_list, merge_no |-> merge_no,
     merging |-> merging]

Store(M) ==
    /\ cells' = M.cells
    /\ nsolved' = M.nsolved
    /\ job' = M.job
    /\ jobindex' = M.jobindex
    /\ history' = M.history
    /\ merge_list' = M.merge_list
    /\ merge_no' = M.merge_no
    /\ merging' = M.merging

PuzColors == 0 .. (ncolor - 1)
ncells == NRows * NCols

(* may_be(cell, color) *)
may_be(M, cell, c) == c \in M.cells[cell].bit

(***************************************************************************)
(* Job queue (job.c, modelled from the design document, 4.2).  The queue   *)
(* is a sequence; a clue's jobindex is the 0-based position of its job.    *)
(***************************************************************************)
JobPriority(k, i) == 0 - Slack(clue[<<k, i>>], LineLen(k))

(* an add that does not look at the clue's jobindex *)
add_job_again(M, k, i) ==
    [M EXCEPT
        !.job = Append(@, [priority |-> 0 - Slack(clue[<<k, i>>], LineLen(k)),
                           dir |-> k, n |-> i]),
        !.jobindex[<<k, i>>] = Len(M.job)]

add_job(M, k, i) ==
    IF M.jobindex[<<k, i>>] >= 0 THEN M
    ELSE [M EXCEPT
            !.job = Append(@, [priority |-> JobPriority(k, i), dir |-> k, n |-> i]),
            !.jobindex[<<k, i>>] = Len(M.job)]

(* add_jobs: put all lines crossing the cell on the job list *)
add_jobs(M, cell) ==
    add_job(add_job(M, D_ROW, CellLine(cell, D_ROW)), D_COL, CellLine(cell, D_COL))

(* position (1-based) of the job next_job takes: the first of highest priority *)
BestJob(q) ==
    CHOOSE x \in 1 .. Len(q) :
        /\ \A y \in 1 .. Len(q) : q[y].priority <= q[x].priority
        /\ \A y \in 1 .. (x - 1) : q[y].priority < q[x].priority

RemoveAt(q, x) == [y \in 1 .. (Len(q) - 1) |-> IF y < x THEN q[y] ELSE q[y + 1]]

IndexOf(q, ln) ==
    IF \E x \in 1 .. Len(q) : <<q[x].dir, q[x].n>> = ln
    THEN (CHOOSE x \in 1 .. Len(q) : <<q[x].dir, q[x].n>> = ln) - 1
    ELSE -1

(* next_job: pops the highest-priority job; callers test the queue first *)
next_job(M) ==
    LET x == BestJob(M.job)
        q == RemoveAt(M.job, x)
    IN  [dir |-> M.job[x].dir, n |-> M.job[x].n,
         M |-> [M EXCEPT !.job = q, !.jobindex = [ln \in Lines |-> IndexOf(q, ln)]]]

flush_jobs(M) == [M EXCEPT !.job = <<>>, !.jobindex = [ln \in Lines |-> -1]]

(* init_jobs: every line is queued when solving starts, rows first *)
LineOrder ==
    [x \in 1 .. (NRows + NCols) |->
        IF x <= NRows THEN <<D_ROW, x - 1>> ELSE <<D_COL, x - NRows - 1>>]

init_jobs(M) ==
    LET q == [x \in 1 .. Len(LineOrder) |->
                [priority |-> JobPriority(LineOrder[x][1], LineOrder[x][2]),
                 dir |-> LineOrder[x][1], n |-> LineOrder[x][2]]]
    IN  [M EXCEPT !.job = q, !.jobindex = [ln \in Lines |-> IndexOf(q, ln)]]


(* an add_hist that records every change, a history being kept or not *)
add_hist_always(M, cell, branch) ==
    [M EXCEPT !.history =
        Append(@, [cell |-> cell, n |-> M.cells[cell].n,
                   bit |-> M.cells[cell].bit, branch |-> branch])]

(***************************************************************************)
(* History (job.c, modelled from the design document, 4.4).                *)
(***************************************************************************)
(* add_hist: a branch entry starts the history; other changes are recorded *)
(* only while a history is being kept                                      *)
add_hist(M, cell, branch) ==
    IF ~branch /\ M.history = <<>> THEN M
    ELSE [M EXCEPT !.history =
            Append(@, [cell |-> cell, n |-> M.cells[cell].n,
                       bit |-> M.cells[cell].bit, branch |-> branch])]

HasBranch(h) == \E x \in 1 .. Len(h) : h[x].branch

(* an undo that forgets what was known before the branch *)
undo_wipe(M) ==
    IF M.history = <<>> THEN [ok |-> FALSE, M |-> M, h |-> <<>>]
    ELSE
        LET b == CHOOSE x \in 1 .. Len(M.history) :
                    /\ M.history[x].branch
                    /\ \A y \in (x + 1) .. Len(M.history) : ~M.history[y].branch
        IN  [ok |-> TRUE,
             M |-> [M EXCEPT !.history = SubSeq(@, 1, b - 1),
                             !.cells = [p \in DOMAIN @ |-> [n |-> Cardinality(PuzColors),
                                                            bit |-> PuzColors]],
                             !.nsolved = 0],
             h |-> <<M.history[b]>>]

(* undo: pops entries up to and including the most recent branch entry,   *)
(* restoring every cell recorded                                           *)
RECURSIVE undo(_)
undo(M) ==
    IF M.history = <<>> THEN [ok |-> FALSE, M |-> M, h |-> <<>>]
    ELSE
        LET h == M.history[Len(M.history)]
            M1 == [M EXCEPT
                     !.history = SubSeq(@, 1, Len(@) - 1),
                     !.cells[h.cell] = [n |-> h.n, bit |-> h.bit],
                     !.nsolved = IF M.cells[h.cell].n = 1 /\ h.n # 1 THEN @ - 1 ELSE @]
        IN  IF h.branch THEN [ok |-> TRUE, M |-> M1, h |-> <<h>>]
            ELSE undo(M1)


(***************************************************************************)
(* Probe merge list (merge.c, modelled from the design document, 4.6).     *)
(* merge_list maps a cell to [maxc, bit]: the last sibling probe that      *)
(* contributed and the colours eliminated by all contributing siblings.    *)
(***************************************************************************)
NoMerge == [x \in {} |-> 0]

(* merge_guess: a new sibling probe starts *)
merge_guess(M) == [M EXCEPT !.merge_no = @ + 1, !.merging = TRUE]

(* merge_set: cell has just been narrowed to bit by the sibling in progress *)
merge_set(M, cell, bit) ==
    LET elim == PuzColors \ bit
        old == M.merge_list
        new == IF cell \in DOMAIN old
               THEN [maxc |-> M.merge_no, bit |-> old[cell].bit \cap elim]
               ELSE [maxc |-> M.merge_no, bit |-> elim]
    IN  [M EXCEPT !.merge_list =
            [x \in (DOMAIN old) \cup {cell} |-> IF x = cell THEN new ELSE old[x]]]

(* merge_cancel: drop what has been merged and stop merging *)
merge_cancel(M) == [M EXCEPT !.merge_list = NoMerge, !.merge_no = 0, !.merging = FALSE]

(* the cells in the order the grid is scanned: row by row *)
CellOrder == [x \in 1 .. (NRows * NCols) |-> <<(x - 1) \div NCols, (x - 1) % NCols>>]

(* merge_check: colours eliminated by every sibling become facts *)
RECURSIVE MergeApply(_, _, _)
MergeApply(M, x, hit) ==
    IF x > Len(CellOrder) THEN [hit |-> hit, M |-> merge_cancel(M)]
    ELSE
        LET cell == CellOrder[x]
            gone == IF cell \in DOMAIN M.merge_list
                       /\ M.merge_list[cell].maxc = M.merge_no
                    THEN M.merge_list[cell].bit \cap M.cells[cell].bit
                    ELSE {}
            nb == M.cells[cell].bit \ gone
            M1 == add_hist(M, cell, FALSE)
            M2 == [M1 EXCEPT
                     !.cells[cell] = [n |-> Cardinality(nb), bit |-> nb],
                     !.nsolved = IF Cardinality(nb) = 1 THEN @ + 1 ELSE @]
        IN  IF gone = {} THEN MergeApply(M, x + 1, hit)
            ELSE MergeApply(add_jobs(M2, cell), x + 1, TRUE)

merge_check(M) == MergeApply(M, 1, FALSE)

(***************************************************************************)
(* apply_lro (line_lro.c, modelled from the design document, 4.1): solve   *)
(* line i of direction k and store what was learned.  Every cell that      *)
(* shrinks is recorded in the history, reported to the merge list while    *)
(* merging, counted when it becomes solved, and its crossing line queued.  *)
(***************************************************************************)
LineBits(M, k, i) == [x \in 0 .. (LineLen(k) - 1) |-> M.cells[LineCell(k, i, x)].bit]

RECURSIVE SetLine(_, _, _, _, _)
SetLine(M, k, i, nb, x) ==
    IF x >= LineLen(k) THEN M
    ELSE
        LET cell == LineCell(k, i, x)
            M1 == add_hist(M, cell, FALSE)
            M2 == IF M1.merging THEN merge_set(M1, cell, nb[x]) ELSE M1
            M3 == [M2 EXCEPT
                     !.cells[cell] = [n |-> Cardinality(nb[x]), bit |-> nb[x]],
                     !.nsolved = IF Cardinality(nb[x]) = 1 THEN @ + 1 ELSE @]
            M4 == add_job(M3, 1 - k, CellLine(cell, 1 - k))
        IN  IF nb[x] = M.cells[cell].bit THEN SetLine(M, k, i, nb, x + 1)
            ELSE SetLine(M4, k, i, nb, x + 1)

apply_lro(M, k, i) ==
    LET r == lro_solve(clue[<<k, i>>], LineBits(M, k, i), LineLen(k))
    IN  IF ~r.ok THEN [ok |-> FALSE, M |-> M]
        ELSE [ok |-> TRUE, M |-> SetLine(M, k, i, r.b, 0)]

(***************************************************************************)
(* backtrack (job.c, modelled from the design document, 4.4): flush the    *)
(* jobs, pop to the last branch and invert that guess.  ok is FALSE when   *)
(* there is no branch to go back to.                                       *)
(***************************************************************************)
LastBranch(h) == CHOOSE x \in 1 .. Len(h) : h[x].branch /\ \A y \in (x + 1) .. Len(h) : ~h[y].branch

(* a backtrack that restores the guessed cell instead of inverting it *)
backtrack_restore(M) ==
    IF ~HasBranch(M.history) THEN [ok |-> FALSE, M |-> flush_jobs(M)]
    ELSE [ok |-> TRUE,
          M |-> add_jobs(undo(flush_jobs(M)).M, M.history[LastBranch(M.history)].cell)]

(* backtrack that never finds a branch to return to *)
backtrack_fail(M) == [ok |-> FALSE, M |-> flush_jobs(M)]

RECURSIVE backtrack(_)
backtrack(M) ==
    LET M0 == flush_jobs(M)
    IN  IF ~HasBranch(M0.history) THEN [ok |-> FALSE, M |-> M0]
        ELSE
            LET cell == M0.history[LastBranch(M0.history)].cell
                guessed == M0.cells[cell].bit
                U == undo(M0).M
                nb == U.cells[cell].bit \ guessed
                nn == U.cells[cell].n - Cardinality(guessed \cap U.cells[cell].bit)
                M1 == add_hist(U, cell, FALSE)
                M2 == [M1 EXCEPT
                         !.cells[cell] = [n |-> nn, bit |-> nb],
                         !.nsolved = IF nn = 1 THEN @ + 1 ELSE @]
            IN  IF nn = 0 THEN backtrack(M2)
                ELSE [ok |-> TRUE, M |-> add_jobs(M2, cell)]



(* guess_cell that records the guess as an ordinary change, not a branch *)
guess_cell_nobranch(M, cell, c) ==
    LET M1 == add_hist(M, cell, FALSE)
        M2 == [M1 EXCEPT !.cells[cell] = [n |-> 1, bit |-> {c}],
                         !.nsolved = @ + 1]
    IN  add_jobs(M2, cell)

(* guess_cell that sets the bit of the colour and forgets the count n *)
guess_cell_keepn(M, cell, c) ==
    LET M1 == add_hist(M, cell, TRUE)
        M2 == [M1 EXCEPT !.cells[cell] = [n |-> @.n, bit |-> {c}],
                         !.nsolved = @ + 1]
    IN  add_jobs(M2, cell)

(* guess_cell that forgets to count the cell as solved *)
guess_cell_nocount(M, cell, c) ==
    LET M1 == add_hist(M, cell, TRUE)
        M2 == [M1 EXCEPT !.cells[cell] = [n |-> 1, bit |-> {c}]]
    IN  add_jobs(M2, cell)

(***************************************************************************)
(* solve.c                                                                 *)
(***************************************************************************)
(* guess_cell: guess colour c for the cell, as a branch point *)
guess_cell(M, cell, c) ==
    LET M1 == add_hist(M, cell, TRUE)
        M2 == [M1 EXCEPT !.cells[cell] = [n |-> 1, bit |-> {c}],
                         !.nsolved = @ + 1]
    IN  add_jobs(M2, cell)


(* a count of the solved neighbours only: the edges of the grid count for nothing *)
count_neighbors_inside(M, i, j) ==
      (IF i > 0 /\ M.cells[<<i - 1, j>>].n = 1 THEN 1 ELSE 0)
    + (IF i < NRows - 1 /\ M.cells[<<i + 1, j>>].n = 1 THEN 1 ELSE 0)
    + (IF j > 0 /\ M.cells[<<i, j - 1>>].n = 1 THEN 1 ELSE 0)
    + (IF j + 1 < NCols /\ M.cells[<<i, j + 1>>].n = 1 THEN 1 ELSE 0)

(* count_neighbors: neighbours of cell (i,j) that are solved or edges *)
count_neighbors(M, i, j) ==
      (IF i = 0 \/ M.cells[<<i - 1, j>>].n = 1 THEN 1 ELSE 0)
    + (IF i = NRows - 1 \/ M.cells[<<i + 1, j>>].n = 1 THEN 1 ELSE 0)
    + (IF j = 0 \/ M.cells[<<i, j - 1>>].n = 1 THEN 1 ELSE 0)
    + (IF j + 1 = NCols \/ M.cells[<<i, j + 1>>].n = 1 THEN 1 ELSE 0)


(* a pass of logic_solve that takes the job off the list and solves nothing *)
LogicLineSkip(M) == [ok |-> TRUE, M |-> next_job(M).M]

(* logic_solve, one pass of its loop: take a job and solve that line *)
LogicLine(M) ==
    LET nj == next_job(M)
    IN  apply_lro(nj.M, nj.dir, nj.n)

(* logic_solve: all consequences of the current state; ok is FALSE on a   *)
(* contradiction, n counts the lines worked on                             *)
RECURSIVE logic_solve(_, _)
logic_solve(M, n) ==
    IF M.job = <<>> THEN [ok |-> TRUE, M |-> M, n |-> n]
    ELSE LET r == LogicLine(M)
         IN  IF ~r.ok THEN [ok |-> FALSE, M |-> r.M, n |-> n + 1]
             ELSE logic_solve(r.M, n + 1)


(* try_everything, one cell: try every colour still possible; a colour    *)
(* that leaves a crossing line without placement is removed.  real is the *)
(* saved setting of the cell (realbit, realn).                             *)
CrossingFails(M, cell) ==
    \E k \in Dirs :
        ~left_solve(clue[<<k, CellLine(cell, k)>>],
                    LineBits(M, k, CellLine(cell, k)), LineLen(k)).ok

(* one cell of try_everything that leaves the tentative setting in place *)
TryColorsNoRestore(M, cell, real, c, hits) ==
    [M |-> [M EXCEPT !.cells[cell] =
                [n |-> 1, bit |-> {CHOOSE d \in real.bit : \A e \in real.bit : e <= d}]],
     hits |-> hits]

RECURSIVE TryColors(_, _, _, _, _)
TryColors(M, cell, real, c, hits) ==
    IF c >= ncolor
    THEN [M |-> [M EXCEPT !.cells[cell] = real], hits |-> hits]
    ELSE IF c \notin real.bit THEN TryColors(M, cell, real, c + 1, hits)
    ELSE
        LET T == [M EXCEPT !.cells[cell] = [n |-> 1, bit |-> {c}]]
            real1 == [n |-> real.n - 1, bit |-> real.bit \ {c}]
            T1 == add_jobs(T, cell)
        IN  IF ~CrossingFails(T, cell) THEN TryColors(T, cell, real, c + 1, hits)
            ELSE IF real1.n = 1
            THEN [M |-> [T1 EXCEPT !.nsolved = @ + 1, !.cells[cell] = real1],
                  hits |-> hits + 1]
            ELSE TryColors(T1, cell, real1, c + 1, hits + 1)

RECURSIVE TryCells(_, _, _)
TryCells(M, x, hits) ==
    IF x > Len(CellOrder) THEN [M |-> M, hits |-> hits]
    ELSE IF M.cells[CellOrder[x]].n = 1 THEN TryCells(M, x + 1, hits)
    ELSE CHOOSE res \in {TryCells(r.M, x + 1, hits + r.hits) :
                          r \in {TryColors(M, CellOrder[x], M.cells[CellOrder[x]], 0, 0)}} :
             TRUE

(* try_everything: returns the number of colours eliminated *)
try_everything(M) == TryCells(M, 1, 0)

(* bicoln stands behind GR_MATH: the rating grows with the binomial       *)
(* coefficient, which is what the comparison of two ratings sees           *)
RECURSIVE Binomial(_, _)
Binomial(n, k) ==
    IF k < 0 \/ n < k THEN 0
    ELSE IF k = 0 THEN 1
    ELSE (Binomial(n - 1, k - 1) * n) \div k

(* ratecell: both operands read the row clue (clue[0][i]) *)
ratecell(i, j) ==
    LET cl == clue[<<D_ROW, i>>]
        sl == Slack(cl, LineLen(D_ROW))
    IN  IF ratepolicy = "simple" THEN 0
        ELSE IF ratepolicy = "adhoc"
        THEN LET si == sl + 2 * Len(cl)
                 sj == sl + 2 * Len(cl)
             IN  IF si < sj THEN 3 * si + sj ELSE 3 * sj + si
        ELSE LET si == Binomial(sl + Len(cl), Len(cl))
                 sj == Binomial(sl + Len(cl), Len(cl))
             IN  IF si < sj THEN si ELSE sj

(* pick_a_cell: the scan, with maxv, minrate and favcell carried along;   *)
(* the result is <<>> for NULL, else <<cell>>                              *)
RECURSIVE PickScan(_, _, _, _, _)
PickScan(M, x, maxv, minrate, favcell) ==
    IF x > Len(CellOrder) THEN (IF maxv = -1 THEN <<>> ELSE favcell)
    ELSE
        LET cell == CellOrder[x]
            v == count_neighbors(M, cell[1], cell[2])
            s == ratecell(cell[1], cell[2])
        IN  IF M.cells[cell].n = 1 THEN PickScan(M, x + 1, maxv, minrate, favcell)
            ELSE IF v = 2 * 2 THEN <<cell>>
            ELSE IF v >= maxv /\ (v > maxv \/ s < minrate)
            THEN PickScan(M, x + 1, v, s, <<cell>>)
            ELSE PickScan(M, x + 1, maxv, minrate, favcell)


(* a scan for the cell to guess on that does not pass over solved cells *)
RECURSIVE PickScanAny(_, _, _, _, _)
PickScanAny(M, x, maxv, minrate, favcell) ==
    IF x > Len(CellOrder) THEN (IF maxv = -1 THEN <<>> ELSE favcell)
    ELSE
        LET cell == CellOrder[x]
            v == count_neighbors(M, cell[1], cell[2])
            s == ratecell(cell[1], cell[2])
        IN  IF v = 2 * 2 THEN <<cell>>
            ELSE IF v >= maxv /\ (v > maxv \/ s < minrate)
            THEN PickScanAny(M, x + 1, v, s, <<cell>>)
            ELSE PickScanAny(M, x + 1, maxv, minrate, favcell)

pick_a_cell_any(M) == PickScanAny(M, 1, -1, 0, <<>>)

pick_a_cell(M) == PickScan(M, 1, -1, 0, <<>>)

(* pick_color: the colours the build's policy may return for the cell.    *)
(* One colour, except for GC_RAND, whose draw may fall on any colour still *)
(* possible.                                                               *)
ContrastScore(M, cell, c) ==
    LET i == cell[1]
        j == cell[2]
    IN    (IF i > 0 THEN (IF ~may_be(M, <<i - 1, j>>, c) THEN 1 ELSE 0)
           ELSE IF c # 0 THEN 1 ELSE 0)
        + (IF i < NRows - 2 THEN (IF ~may_be(M, <<i + 1, j>>, c) THEN 1 ELSE 0)
           ELSE IF c # 0 THEN 1 ELSE 0)
        + (IF j > 0 THEN (IF ~may_be(M, <<i, j - 1>>, c) THEN 1 ELSE 0)
           ELSE IF c # 0 THEN 1 ELSE 0)
        + (IF j < NCols - 2 THEN (IF ~may_be(M, <<i, j + 1>>, c) THEN 1 ELSE 0)
           ELSE IF c # 0 THEN 1 ELSE 0)

pick_color(M, cell) ==
    LET may == M.cells[cell].bit
    IN  IF colorpolicy = "max" THEN {c \in may : \A d \in may : d <= c}
        ELSE IF colorpolicy = "min" THEN {c \in may : \A d \in may : c <= d}
        ELSE IF colorpolicy = "rand" THEN may
        ELSE {c \in may : /\ \A d \in may : ContrastScore(M, cell, d) <= ContrastScore(M, cell, c)
                          /\ \A d \in may : d < c => ContrastScore(M, cell, d) < ContrastScore(M, cell, c)}


(***************************************************************************)
(* Initial states: a loaded puzzle, a configuration, solve about to run.   *)
(***************************************************************************)
(* a row has one to MaxRuns runs, a column a single run *)
RowClues == ClueSet(NCols)
ColClues == {cl \in ClueSet(NRows) : Len(cl) = 1}

(* the cells of colour col that the clues s of the lines i .. n - 1 of one *)
(* direction paint                                                         *)
RECURSIVE PaintedFrom(_, _)
PaintedFrom(c, i) == IF i >= NCols THEN 0 ELSE SumLen(c[i]) + PaintedFrom(c, i + 1)

RECURSIVE Painted(_, _, _, _)
Painted(s, n, i, col) ==
    IF i >= n THEN 0
    ELSE SumLen(SelectSeq(s[i], LAMBDA r : r.col = col)) + Painted(s, n, i + 1, col)

(* the cells that the column clues c paint *)
SumOfPainted(c) == PaintedFrom(c, 0)

(* the rows and the columns paint as many cells of every colour: puzzles   *)
(* that were made from a picture do, and so do many that have no solution; *)
(* the picture has at most MaxPainted cells that are not background        *)
Balanced(r, c) ==
    /\ \A col \in 1 .. (NColor - 1) : Painted(r, NRows, 0, col) = Painted(c, NCols, 0, col)
    /\ SumOfPainted(c) <= MaxPainted

(* the blank puzzle (the only one of a single colour) and the balanced    *)
(* puzzles over the clues above                                            *)
BlankPuzzle == [ln \in Lines |-> <<>>]

PuzzleOf(r, c) == [ln \in Lines |-> IF ln[1] = D_ROW THEN r[ln[2]] ELSE c[ln[2]]]

PuzzleSet ==
    {BlankPuzzle} \cup
    {PuzzleOf(x[1], x[2]) :
        x \in {y \in {<<r, c>> : r \in [RowIx -> RowClues], c \in [ColIx -> ColClues]} :
                  Balanced(y[1], y[2])}}

(* a puzzle of nc colours uses colours below nc only *)
IsPuzzle(f, nc) == \A ln \in Lines : \A k \in 1 .. Len(f[ln]) : f[ln][k].col < nc

(* init_solution: every cell may be any colour *)
FreshCells(nc) == [p \in Pos |-> [n |-> nc, bit |-> 0 .. (nc - 1)]]

(* the configurations that differ in what the driver does *)
Configs ==
    {[maybacktrack |-> FALSE, mayprobe |-> FALSE, useprobefn |-> FALSE,
      tryharder |-> TRUE, mergeprobe |-> FALSE, probelevel |-> 1,
      colorpolicy |-> "max", ratepolicy |-> "simple"]}
    \cup
    {[maybacktrack |-> TRUE, mayprobe |-> FALSE, useprobefn |-> FALSE,
      tryharder |-> p[3], mergeprobe |-> FALSE, probelevel |-> 1,
      colorpolicy |-> p[1], ratepolicy |-> p[2]] :
        p \in {<<"max", "simple", FALSE>>, <<"min", "adhoc", TRUE>>,
               <<"rand", "math", FALSE>>, <<"contrast", "simple", FALSE>>}}
    \cup
    {[maybacktrack |-> TRUE, mayprobe |-> TRUE, useprobefn |-> FALSE,
      tryharder |-> FALSE, mergeprobe |-> FALSE, probelevel |-> 1,
      colorpolicy |-> "max", ratepolicy |-> "simple"]}
    \cup
    {[maybacktrack |-> TRUE, mayprobe |-> TRUE, useprobefn |-> TRUE,
      tryharder |-> p[1], mergeprobe |-> p[2], probelevel |-> p[3],
      colorpolicy |-> "max", ratepolicy |-> "simple"] :
        p \in {<<FALSE, FALSE, 1>>, <<FALSE, FALSE, 2>>, <<FALSE, TRUE, 2>>,
               <<TRUE, TRUE, 2>>}}

Snapshot(M) == [cells |-> M.cells, nsolved |-> M.nsolved, history |-> M.history]

Init ==
    /\ ncolor \in 1 .. NColor
    /\ clue \in PuzzleSet
    /\ IsPuzzle(clue, ncolor)
    /\ initcells = FreshCells(ncolor)
    /\ cells = initcells
    /\ nsolved = Cardinality({p \in Pos : initcells[p].n = 1})
    /\ history = <<>>
    /\ merge_list = NoMerge
    /\ merge_no = 0
    /\ merging = FALSE
    /\ LET M == init_jobs([cells |-> cells, nsolved |-> nsolved, job |-> <<>>,
                           jobindex |-> [ln \in Lines |-> -1], history |-> <<>>,
                           merge_list |-> NoMerge, merge_no |-> 0, merging |-> FALSE])
       IN  job = M.job /\ jobindex = M.jobindex
    /\ probepad = [p \in Pos |-> {}]
    /\ probing = FALSE
    /\ nlines = 0 /\ guesses = 0 /\ probes = 0 /\ merges = 0 /\ backtracks = 0
    /\ pc = "start" /\ caller = "solve" /\ ret = -1
    /\ pi = 0 /\ pj = 0 /\ pcol = 0
    /\ bestnleft = INT_MAX /\ besti = 0 /\ bestj = 0 /\ bestc = 0
    /\ foundbetter = 0 /\ ppass = 0 /\ pk = 0 /\ pneigh = 0
    /\ mark = [pre |-> Snapshot([cells |-> cells, nsolved |-> nsolved, history |-> <<>>]),
               entry |-> Snapshot([cells |-> cells, nsolved |-> nsolved, history |-> <<>>]),
               seq |-> <<>>, sib |-> <<>>, top |-> cells]
    /\ \E cf \in Configs :
        /\ maybacktrack = cf.maybacktrack
        /\ mayprobe = cf.mayprobe
        /\ useprobefn = cf.useprobefn
        /\ tryharder = cf.tryharder
        /\ mergeprobe = cf.mergeprobe
        /\ probelevel = cf.probelevel
        /\ colorpolicy = cf.colorpolicy
        /\ ratepolicy = cf.ratepolicy

(***************************************************************************)
(* solve (solve.c 346-504).                                                *)
(***************************************************************************)
(* One colour puzzles are already solved *)
SolveOneColor ==
    /\ pc = "start" /\ ncolor < 2
    /\ nsolved' = ncells
    /\ ret' = 1 /\ pc' = "done"
    /\ UNCHANGED <<puzvars, cfgvars, cells, job, jobindex, history, merge_list,
                   merge_no, merging, cntvars, curvars, probepad, probing, caller, mark>>

SolveEnter ==
    /\ pc = "start" /\ ncolor >= 2
    /\ pc' = "logic" /\ caller' = "solve"
    /\ UNCHANGED <<puzvars, cfgvars, machvars, cntvars, curvars, probepad, probing,
                   ret, mark>>

(* logic_solve: one line taken from the job list and solved *)
LogicStep ==
    /\ pc = "logic" /\ job # <<>>
    /\ LET r == LogicLine(Cur)
       IN  /\ Store(r.M)
           /\ pc' = IF r.ok THEN "logic"
                    ELSE IF caller = "solve" THEN "contra" ELSE "probe_contra"
    /\ nlines' = nlines + 1
    /\ UNCHANGED <<puzvars, cfgvars, guesses, probes, merges, backtracks, curvars,
                   probepad, probing, caller, ret, mark>>

(* logic_solve has returned to solve without contradiction *)
Stalled == pc = "logic" /\ job = <<>> /\ caller = "solve"


(* solve that takes a quiescent puzzle for done without counting *)
SolveSolvedUnchecked ==
    /\ Stalled
    /\ ret' = 1 /\ pc' = "done"
    /\ UNCHANGED <<puzvars, cfgvars, machvars, cntvars, curvars, probepad, probing,
                   caller, mark>>

(* Stop if puzzle is done *)
SolveSolved ==
    /\ Stalled /\ nsolved = ncells
    /\ ret' = 1 /\ pc' = "done"
    /\ UNCHANGED <<puzvars, cfgvars, machvars, cntvars, curvars, probepad, probing,
                   caller, mark>>

(* the exhaustive check run without the option being asked for *)
ExhaustUnasked ==
    IF history = <<>> THEN try_everything(Cur) ELSE [M |-> Cur, hits |-> 0]

(* tryharder && puz->history == NULL && try_everything(puz,sol) *)
Exhaust ==
    IF tryharder /\ history = <<>> THEN try_everything(Cur) ELSE [M |-> Cur, hits |-> 0]

SolveTryEverything ==
    /\ Stalled /\ nsolved # ncells
    /\ Exhaust.hits > 0
    /\ Store(Exhaust.M)
    /\ UNCHANGED <<puzvars, cfgvars, cntvars, curvars, probepad, probing, pc,
                   caller, ret, mark>>

NoProgress == Stalled /\ nsolved # ncells /\ Exhaust.hits = 0


(* solve that guesses once more before it gives up *)
SolveStuckGuess ==
    /\ NoProgress /\ ~maybacktrack
    /\ \E p \in Pos :
        /\ cells[p].n >= 2
        /\ \E c \in cells[p].bit : Store(guess_cell(Exhaust.M, p, c))
    /\ guesses' = guesses + 1
    /\ ret' = 1 /\ pc' = "done"
    /\ UNCHANGED <<puzvars, cfgvars, nlines, probes, merges, backtracks, curvars,
                   probepad, probing, caller, mark>>

(* Stop if no guessing is allowed *)
SolveStuck ==
    /\ NoProgress /\ ~maybacktrack
    /\ Store(Exhaust.M)
    /\ ret' = 1 /\ pc' = "done"
    /\ UNCHANGED <<puzvars, cfgvars, cntvars, curvars, probepad, probing, caller, mark>>

(* the cells of M if no guess is live in it, else the ones remembered *)
TopOf(M) == IF M.history = <<>> THEN M.cells ELSE mark.top

(* Old guessing algorithm: use heuristics to make a guess *)
SolveHeuristicGuess ==
    /\ NoProgress /\ maybacktrack /\ ~mayprobe
    /\ LET M == Exhaust.M
           cell == pick_a_cell(M)
       IN  IF cell = <<>>
           THEN /\ Store(M) /\ ret' = 0 /\ pc' = "done" /\ guesses' = guesses
                /\ mark' = mark
           ELSE \E c \in pick_color(M, cell[1]) :
                    /\ Store(guess_cell(M, cell[1], c))
                    /\ guesses' = guesses + 1
                    /\ mark' = [mark EXCEPT !.top = TopOf(M)]
                    /\ UNCHANGED <<ret, pc>>
    /\ UNCHANGED <<puzvars, cfgvars, nlines, probes, merges, backtracks, curvars,
                   probepad, probing, caller>>

(***************************************************************************)
(* The probe sequence written inside solve (solve.c 380-466).  Each pass   *)
(* through solve's loop either starts the sequence or completes the probe  *)
(* made in the pass before, and then scans on from (i, j, c).              *)
(***************************************************************************)
(* least colour from c on that the cell may be, or ncolor *)
NextColor(M, cell, c) ==
    IF \E d \in PuzColors : d >= c /\ may_be(M, cell, d)
    THEN CHOOSE d \in PuzColors :
            /\ d >= c /\ may_be(M, cell, d)
            /\ \A e \in PuzColors : (e >= c /\ may_be(M, cell, e)) => d <= e
    ELSE ncolor

(* Scan for the next cell to probe on *)
RECURSIVE InlineScan(_, _, _, _)
InlineScan(M, i, j, c) ==
    IF i >= NRows THEN [kind |-> "complete", M |-> M, i |-> i, j |-> j, c |-> c]
    ELSE IF j >= NCols THEN InlineScan(M, i + 1, 0, c)
    ELSE IF M.cells[<<i, j>>].n < 2 THEN InlineScan(M, i, j + 1, c)
    ELSE IF count_neighbors(M, i, j) < 2 THEN InlineScan(M, i, j + 1, c)
    ELSE IF NextColor(M, <<i, j>>, c) < ncolor
    THEN [kind |-> "probe", M |-> M, i |-> i, j |-> j, c |-> NextColor(M, <<i, j>>, c)]
    ELSE LET mc == merge_check(M)
         IN  IF mc.hit
             THEN [kind |-> "merge", M |-> mc.M, i |-> i, j |-> j, c |-> 0]
             ELSE InlineScan(mc.M, i, j + 1, 0)

SolveProbeInline ==
    /\ NoProgress /\ maybacktrack /\ mayprobe /\ ~useprobefn
    /\ LET nleft == ncells - nsolved
           better == probing /\ nleft < bestnleft
           bnl == IF ~probing THEN INT_MAX ELSE IF better THEN nleft ELSE bestnleft
           bi == IF better THEN pi ELSE besti
           bj == IF better THEN pj ELSE bestj
           bc == IF better THEN pcol ELSE bestc
           M0 == IF probing THEN undo(Exhaust.M).M ELSE Exhaust.M
           sc == IF probing THEN InlineScan(M0, pi, pj, pcol + 1)
                 ELSE InlineScan(M0, 0, 0, 0)
       IN  /\ pi' = sc.i /\ pj' = sc.j /\ pcol' = sc.c
           /\ besti' = bi /\ bestj' = bj /\ bestc' = bc /\ bestnleft' = bnl
           /\ IF sc.kind = "probe"
              THEN /\ probing' = TRUE
                   /\ probes' = probes + 1
                   /\ mark' = [mark EXCEPT !.pre = Snapshot(sc.M), !.top = TopOf(sc.M)]
                   /\ Store(guess_cell(merge_guess(sc.M), <<sc.i, sc.j>>, sc.c))
                   /\ UNCHANGED <<merges, guesses, pc, ret>>
              ELSE IF sc.kind = "merge"
              THEN /\ probing' = FALSE
                   /\ merges' = merges + 1
                   /\ Store(sc.M)
                   /\ UNCHANGED <<probes, guesses, pc, ret, mark>>
              ELSE /\ probing' = FALSE
                   /\ IF bnl = INT_MAX
                      THEN /\ Store(sc.M) /\ pc' = "exit" /\ guesses' = guesses
                           /\ mark' = mark
                      ELSE /\ Store(guess_cell(sc.M, <<bi, bj>>, bc))
                           /\ guesses' = guesses + 1
                           /\ mark' = [mark EXCEPT !.top = TopOf(sc.M)]
                           /\ pc' = pc
                   /\ UNCHANGED <<probes, merges, ret>>
    /\ UNCHANGED <<puzvars, cfgvars, nlines, backtracks, foundbetter, ppass, pk,
                   pneigh, probepad, caller>>

(* We have hit a contradiction - try backtracking *)
SolveBacktrack ==
    /\ pc = "contra"
    /\ probing' = FALSE
    /\ guesses' = guesses + 1
    /\ LET r == backtrack(Cur)
       IN  /\ Store(r.M)
           /\ backtracks' = IF r.ok THEN backtracks + 1 ELSE backtracks
           /\ IF r.ok THEN pc' = "logic" /\ ret' = ret
              ELSE pc' = "done" /\ ret' = 0
    /\ UNCHANGED <<puzvars, cfgvars, nlines, probes, merges, curvars, probepad,
                   caller, mark>>

(***************************************************************************)
(* probe.c: the probe sequence as a function of its own.  The driver that  *)
(* calls it belongs to a version of solve.c that is not at hand: the call  *)
(* and what the driver does with the result follow the design document     *)
(* (4.8, 4.9).                                                             *)
(***************************************************************************)
SolveCallProbe ==
    /\ NoProgress /\ maybacktrack /\ mayprobe /\ useprobefn
    /\ Store(Exhaust.M)
    /\ pc' = "probe_enter"
    /\ UNCHANGED <<puzvars, cfgvars, cntvars, curvars, probepad, probing, caller,
                   ret, mark>>

(* init_probepad: create or clear the probe pad *)
init_probepad == [p \in Pos |-> {}]

(* probe, lines 201-210: starting a new probe sequence *)
ProbeEnter ==
    /\ pc = "probe_enter"
    /\ probepad' = init_probepad
    /\ probing' = TRUE
    /\ bestnleft' = INT_MAX
    /\ IF probelevel > 1
       THEN ppass' = 1 /\ pk' = Len(history) - 1 /\ pneigh' = 0
       ELSE ppass' = 2 /\ pk' = pk /\ pneigh' = pneigh
    /\ pi' = 0 /\ pj' = -1
    /\ pc' = "probe"
    /\ mark' = [mark EXCEPT !.seq = <<>>, !.sib = <<>>]
    /\ UNCHANGED <<puzvars, cfgvars, machvars, cntvars, pcol, besti, bestj, bestc,
                   foundbetter, caller, ret>>

(* the neighbour number neigh of cell (ci, cj), <<>> if it is off the grid *)
Neighbor(ci, cj, neigh) ==
    IF neigh = 0 THEN (IF ci = 0 THEN <<>> ELSE <<ci - 1, cj>>)
    ELSE IF neigh = 1 THEN (IF ci = NRows - 1 THEN <<>> ELSE <<ci + 1, cj>>)
    ELSE IF neigh = 2 THEN (IF cj = 0 THEN <<>> ELSE <<ci, cj - 1>>)
    ELSE (IF cj + 1 = NCols THEN <<>> ELSE <<ci, cj + 1>>)


(* a neighbourhood pass that walks the whole history, past the last guess *)
RECURSIVE ProbeNextAll(_, _, _, _, _, _)
ProbeNextAll(M, pass, k, neigh, i, j) ==
    IF pass = 1
    THEN IF k < 0 THEN ProbeNextAll(M, 2, k, neigh, 0, 0)
         ELSE IF neigh >= 4 THEN ProbeNextAll(M, 1, k - 1, 0, i, j)
         ELSE LET h == M.history[k + 1]
                  nb == Neighbor(h.cell[1], h.cell[2], neigh)
              IN  IF nb = <<>> \/ M.cells[nb].n < 2
                  THEN ProbeNextAll(M, 1, k, neigh + 1, i, j)
                  ELSE [kind |-> "cell", pass |-> 1, k |-> k, neigh |-> neigh + 1,
                        i |-> nb[1], j |-> nb[2]]
    ELSE IF i >= NRows
         THEN [kind |-> "complete", pass |-> 2, k |-> k, neigh |-> neigh, i |-> i, j |-> j]
         ELSE IF j >= NCols THEN ProbeNextAll(M, 2, k, neigh, i + 1, 0)
         ELSE IF M.cells[<<i, j>>].n < 2 \/ count_neighbors(M, i, j) < 2
         THEN ProbeNextAll(M, 2, k, neigh, i, j + 1)
         ELSE [kind |-> "cell", pass |-> 2, k |-> k, neigh |-> neigh, i |-> i, j |-> j]

(* probe, lines 209-279: the next cell to call probe_cell on.  pass 1      *)
(* walks the history from entry k, neighbour neigh; pass 2 scans the grid  *)
(* from (i, j).                                                            *)
RECURSIVE ProbeNext(_, _, _, _, _, _)
ProbeNext(M, pass, k, neigh, i, j) ==
    IF pass = 1
    THEN IF k < 0 THEN ProbeNext(M, 2, k, neigh, 0, 0)
         ELSE IF neigh >= 4
         THEN (IF M.history[k + 1].branch THEN ProbeNext(M, 2, k, neigh, 0, 0)
               ELSE ProbeNext(M, 1, k - 1, 0, i, j))
         ELSE LET h == M.history[k + 1]
                  nb == Neighbor(h.cell[1], h.cell[2], neigh)
              IN  IF nb = <<>> \/ M.cells[nb].n < 2
                  THEN ProbeNext(M, 1, k, neigh + 1, i, j)
                  ELSE [kind |-> "cell", pass |-> 1, k |-> k, neigh |-> neigh + 1,
                        i |-> nb[1], j |-> nb[2]]
    ELSE IF i >= NRows
         THEN [kind |-> "complete", pass |-> 2, k |-> k, neigh |-> neigh, i |-> i, j |-> j]
         ELSE IF j >= NCols THEN ProbeNext(M, 2, k, neigh, i + 1, 0)
         ELSE IF M.cells[<<i, j>>].n < 2 \/ count_neighbors(M, i, j) < 2
         THEN ProbeNext(M, 2, k, neigh, i, j + 1)
         ELSE [kind |-> "cell", pass |-> 2, k |-> k, neigh |-> neigh, i |-> i, j |-> j]

(* a scan that does not step past the cell it has just probed *)
ProbeScanRescan ==
    /\ pc = "probe"
    /\ LET nx == ProbeNext(Cur, ppass, pk, pneigh, pi, IF pj < 0 THEN 0 ELSE pj)
       IN  /\ ppass' = nx.pass /\ pk' = nx.k /\ pneigh' = nx.neigh
           /\ pi' = nx.i /\ pj' = nx.j
           /\ IF nx.kind = "cell"
              THEN /\ merging' = mergeprobe
                   /\ pcol' = 0 /\ foundbetter' = 0
                   /\ pc' = "probe_cell"
                   /\ probing' = probing
                   /\ mark' = [mark EXCEPT !.entry = Snapshot(Cur), !.sib = <<>>]
              ELSE /\ pc' = IF bestnleft = INT_MAX THEN "exit" ELSE "probe_guess"
                   /\ probing' = (bestnleft = INT_MAX)
                   /\ UNCHANGED <<merging, pcol, foundbetter, mark>>
    /\ UNCHANGED <<puzvars, cfgvars, cells, nsolved, job, jobindex, history,
                   merge_list, merge_no, cntvars, bestnleft, besti, bestj, bestc,
                   probepad, caller, ret>>

(* probe: go on to the next cell and call probe_cell (which starts with   *)
(* merging= mergeprobe), or complete the sequence and return 0             *)
ProbeScan ==
    /\ pc = "probe"
    /\ LET nx == ProbeNext(Cur, ppass, pk, pneigh, pi, pj + 1)
       IN  /\ ppass' = nx.pass /\ pk' = nx.k /\ pneigh' = nx.neigh
           /\ pi' = nx.i /\ pj' = nx.j
           /\ IF nx.kind = "cell"
              THEN /\ merging' = mergeprobe
                   /\ pcol' = 0 /\ foundbetter' = 0
                   /\ pc' = "probe_cell"
                   /\ probing' = probing
                   /\ mark' = [mark EXCEPT !.entry = Snapshot(Cur), !.sib = <<>>]
              ELSE /\ pc' = IF bestnleft = INT_MAX THEN "exit" ELSE "probe_guess"
                   /\ probing' = (bestnleft = INT_MAX)
                   /\ UNCHANGED <<merging, pcol, foundbetter, mark>>
    /\ UNCHANGED <<puzvars, cfgvars, cells, nsolved, job, jobindex, history,
                   merge_list, merge_no, cntvars, bestnleft, besti, bestj, bestc,
                   probepad, caller, ret>>

(* the driver commits the guess the probe sequence returned *)
SolveCommitGuess ==
    /\ pc = "probe_guess"
    /\ Store(guess_cell(Cur, <<besti, bestj>>, bestc))
    /\ guesses' = guesses + 1
    /\ mark' = [mark EXCEPT !.top = TopOf(Cur)]
    /\ pc' = "logic" /\ caller' = "solve"
    /\ UNCHANGED <<puzvars, cfgvars, nlines, probes, merges, backtracks, curvars,
                   probepad, probing, ret>>

ProbedCell == <<pi, pj>>

(* a skip that leaves the merge of the probed cell going *)
ProbeCellSkipMerging ==
    /\ pc = "probe_cell"
    /\ LET c == NextColor(Cur, ProbedCell, pcol)
       IN  /\ c < ncolor /\ c \in probepad[ProbedCell]
           /\ pcol' = c + 1
    /\ UNCHANGED <<puzvars, cfgvars, machvars, cntvars, pi, pj, bestnleft, besti,
                   bestj, bestc, foundbetter, ppass, pk, pneigh, probepad, probing,
                   pc, caller, ret, mark>>

(* probe_cell, lines 81-88: the colour was part of an earlier probe *)
ProbeCellSkip ==
    /\ pc = "probe_cell"
    /\ LET c == NextColor(Cur, ProbedCell, pcol)
       IN  /\ c < ncolor /\ c \in probepad[ProbedCell]
           /\ Store(IF merging THEN merge_cancel(Cur) ELSE Cur)
           /\ pcol' = c + 1
    /\ UNCHANGED <<puzvars, cfgvars, cntvars, pi, pj, bestnleft, besti, bestj, bestc,
                   foundbetter, ppass, pk, pneigh, probepad, probing, pc, caller,
                   ret, mark>>

(* probe_cell, lines 91-99: found a candidate colour - go probe on it *)
ProbeCellGuess ==
    /\ pc = "probe_cell"
    /\ LET c == NextColor(Cur, ProbedCell, pcol)
       IN  /\ c < ncolor /\ c \notin probepad[ProbedCell]
           /\ Store(guess_cell(IF merging THEN merge_guess(Cur) ELSE Cur, ProbedCell, c))
           /\ pcol' = c
    /\ probes' = probes + 1
    /\ mark' = [mark EXCEPT !.pre = Snapshot(Cur), !.top = TopOf(Cur)]
    /\ pc' = "logic" /\ caller' = "probe_cell"
    /\ UNCHANGED <<puzvars, cfgvars, nlines, guesses, merges, backtracks, pi, pj,
                   bestnleft, besti, bestj, bestc, foundbetter, ppass, pk, pneigh,
                   probepad, probing, ret>>

(* a pad that collects the colours the probe removed from the cells *)
PadUpdateGone(pad, M, from) ==
    LET set == {M.history[x].cell : x \in (from + 1) .. Len(M.history)}
    IN  [p \in Pos |-> IF p \in set THEN pad[p] \cup (PuzColors \ M.cells[p].bit)
                       ELSE pad[p]]

(* the probe pad (probe.c 31-36): every colour that was set for a cell in *)
(* the course of the probe is ORed into it.  The cells set by the probe    *)
(* are those of the history entries made since it started.                 *)
PadUpdate(pad, M, from) ==
    LET set == {M.history[x].cell : x \in (from + 1) .. Len(M.history)}
    IN  [p \in Pos |-> IF p \in set /\ M.cells[p].n = 1 THEN pad[p] \cup M.cells[p].bit
                       ELSE pad[p]]

(* a rating that prefers the later of two equally good probes *)
ProbeQuiescentLater ==
    /\ pc = "logic" /\ job = <<>> /\ caller = "probe_cell"
    /\ nsolved # ncells
    /\ LET nleft == ncells - nsolved
       IN  IF nleft <= bestnleft
           THEN bestnleft' = nleft /\ bestc' = pcol /\ foundbetter' = foundbetter + 1
           ELSE UNCHANGED <<bestnleft, bestc, foundbetter>>
    /\ probepad' = PadUpdate(probepad, Cur, Len(mark.pre.history))
    /\ Store(undo(Cur).M)
    /\ pcol' = pcol + 1
    /\ pc' = "probe_cell"
    /\ LET e == [cell |-> ProbedCell, col |-> pcol, pre |-> mark.pre.cells,
                 post |-> cells, nleft |-> ncells - nsolved]
       IN  mark' = [mark EXCEPT !.seq = Append(@, e), !.sib = Append(@, e)]
    /\ UNCHANGED <<puzvars, cfgvars, cntvars, pi, pj, besti, bestj, ppass, pk, pneigh,
                   probing, caller, ret>>

(* probe_cell, lines 101-121: probe complete - save its rating and undo it *)
ProbeQuiescent ==
    /\ pc = "logic" /\ job = <<>> /\ caller = "probe_cell"
    /\ nsolved # ncells
    /\ LET nleft == ncells - nsolved
       IN  IF nleft < bestnleft
           THEN bestnleft' = nleft /\ bestc' = pcol /\ foundbetter' = foundbetter + 1
           ELSE UNCHANGED <<bestnleft, bestc, foundbetter>>
    /\ probepad' = PadUpdate(probepad, Cur, Len(mark.pre.history))
    /\ Store(undo(Cur).M)
    /\ pcol' = pcol + 1
    /\ pc' = "probe_cell"
    /\ LET e == [cell |-> ProbedCell, col |-> pcol, pre |-> mark.pre.cells,
                 post |-> cells, nleft |-> ncells - nsolved]
       IN  mark' = [mark EXCEPT !.seq = Append(@, e), !.sib = Append(@, e)]
    /\ UNCHANGED <<puzvars, cfgvars, cntvars, pi, pj, besti, bestj, ppass, pk, pneigh,
                   probing, caller, ret>>

(* probe_cell, lines 151-157: by wild luck, we solved it; probe returns 1 *)
(* and the driver returns solved                                           *)
ProbeSolved ==
    /\ pc = "logic" /\ job = <<>> /\ caller = "probe_cell"
    /\ nsolved = ncells
    /\ Store(IF merging THEN merge_cancel(Cur) ELSE Cur)
    /\ probing' = FALSE
    /\ ret' = 1 /\ pc' = "done"
    /\ UNCHANGED <<puzvars, cfgvars, cntvars, curvars, probepad, caller, mark>>


(* probe_cell that treats a contradicted probe like a completed one: it   *)
(* is undone and the next colour is tried                                 *)
ProbeContradictionUndo ==
    /\ pc = "probe_contra"
    /\ Store(flush_jobs(undo(Cur).M))
    /\ pcol' = pcol + 1
    /\ pc' = "probe_cell"
    /\ UNCHANGED <<puzvars, cfgvars, cntvars, pi, pj, bestnleft, besti, bestj, bestc,
                   foundbetter, ppass, pk, pneigh, probepad, probing, caller, ret,
                   mark>>

(* probe_cell that leaves a contradicted probe in place: no backtrack *)
ProbeContradictionKeep ==
    /\ pc = "probe_contra"
    /\ guesses' = guesses + 1
    /\ Store(flush_jobs(IF merging THEN merge_cancel(Cur) ELSE Cur))
    /\ pc' = "logic" /\ probing' = FALSE
    /\ caller' = "solve"
    /\ UNCHANGED <<puzvars, cfgvars, nlines, probes, merges, backtracks, curvars,
                   probepad, ret, mark>>

(* probe_cell, lines 122-150: found a contradiction - backtrack to the    *)
(* guess point and invert it; probe returns -1 and the driver resumes      *)
(* logic solving                                                           *)
ProbeContradiction ==
    /\ pc = "probe_contra"
    /\ guesses' = guesses + 1
    /\ LET r == backtrack(IF merging THEN merge_cancel(Cur) ELSE Cur)
       IN  /\ Store(r.M)
           /\ backtracks' = IF r.ok THEN backtracks + 1 ELSE backtracks
           /\ IF r.ok THEN pc' = "logic" /\ probing' = FALSE
              ELSE pc' = "exit" /\ probing' = probing
    /\ caller' = "solve"
    /\ UNCHANGED <<puzvars, cfgvars, nlines, probes, merges, curvars, probepad,
                   ret, mark>>

(* probe_cell, lines 162-173: finished all probes on a cell *)
ProbeCellEnd ==
    /\ pc = "probe_cell"
    /\ NextColor(Cur, ProbedCell, pcol) >= ncolor
    /\ LET mc == IF merging THEN merge_check(Cur) ELSE [hit |-> FALSE, M |-> Cur]
       IN  /\ Store(mc.M)
           /\ IF mc.hit
              THEN /\ merges' = merges + 1
                   /\ probing' = FALSE
                   /\ pc' = "logic" /\ caller' = "solve"
                   /\ UNCHANGED <<besti, bestj>>
              ELSE /\ IF foundbetter > 0
                      THEN besti' = pi /\ bestj' = pj
                      ELSE UNCHANGED <<besti, bestj>>
                   /\ pc' = "probe"
                   /\ UNCHANGED <<merges, probing, caller>>
    /\ UNCHANGED <<puzvars, cfgvars, nlines, guesses, probes, backtracks, pi, pj, pcol,
                   bestnleft, bestc, foundbetter, ppass, pk, pneigh, probepad, ret, mark>>

Next ==
    \/ SolveOneColor
    \/ SolveEnter
    \/ LogicStep
    \/ SolveSolved
    \/ SolveTryEverything
    \/ SolveStuck
    \/ SolveHeuristicGuess
    \/ SolveProbeInline
    \/ SolveBacktrack
    \/ SolveCallProbe
    \/ ProbeEnter
    \/ ProbeScan
    \/ SolveCommitGuess
    \/ ProbeCellSkip
    \/ ProbeCellGuess
    \/ ProbeQuiescent
    \/ ProbeSolved
    \/ ProbeContradiction
    \/ ProbeCellEnd

Spec == Init /\ [][Next]_vars

(***************************************************************************)
(* What a solution of the puzzle is: a full colouring of the grid, within  *)
(* the possibilities the puzzle was loaded with, whose runs of painted     *)
(* cells in every row and column are the runs of the clue.                 *)
(***************************************************************************)
(* first position from x on where the run of colour c ends *)
RECURSIVE RunEnd(_, _, _, _)
RunEnd(f, L, x, c) == IF x >= L \/ f[x] # c THEN x ELSE RunEnd(f, L, x + 1, c)

(* the runs of painted cells of the coloured line f, from position x on *)
RECURSIVE RunsFrom(_, _, _)
RunsFrom(f, L, x) ==
    IF x >= L THEN <<>>
    ELSE IF f[x] = 0 THEN RunsFrom(f, L, x + 1)
    ELSE <<[len |-> RunEnd(f, L, x, f[x]) - x, col |-> f[x]]>>
            \o RunsFrom(f, L, RunEnd(f, L, x, f[x]))

GridLine(g, k, i) == [x \in 0 .. (LineLen(k) - 1) |-> g[LineCell(k, i, x)]]

Satisfies(g) ==
    \A ln \in Lines : RunsFrom(GridLine(g, ln[1], ln[2]), LineLen(ln[1]), 0) = clue[ln]

(* the colourings of row i that fit its clue and the initial possibilities *)
RowFills(i) ==
    {r \in [0 .. (NCols - 1) -> PuzColors] :
        /\ \A x \in 0 .. (NCols - 1) : r[x] \in initcells[<<i, x>>].bit
        /\ RunsFrom(r, NCols, 0) = clue[<<D_ROW, i>>]}

(* one fitting colouring for each of the rows i .. NRows - 1 *)
RECURSIVE RowStacks(_)
RowStacks(i) ==
    IF i >= NRows THEN {<<>>}
    ELSE {<<r>> \o rest : r \in RowFills(i), rest \in RowStacks(i + 1)}

Solutions ==
    {g \in {[p \in Pos |-> rr[p[1] + 1][p[2]]] : rr \in RowStacks(0)} :
        Satisfies(g)}

(* the grid the cells spell when every cell is solved *)
SolvedGrid == [p \in Pos |-> CHOOSE c \in cells[p].bit : TRUE]

Returned(v) == pc = "done" /\ ret = v

(***************************************************************************)
(* C2.  With backtracking enabled, whenever solve returns 1 the puzzle is  *)
(* completely solved: nsolved = ncells, every cell has exactly one         *)
(* possible colour, and the grid satisfies the clue of every row and       *)
(* every column.                                                           *)
(***************************************************************************)
C2_SuccessIsSolved ==
    (Returned(1) /\ maybacktrack) =>
        /\ nsolved = ncells
        /\ \A p \in Pos : cells[p].n = 1 /\ Cardinality(cells[p].bit) = 1
        /\ Satisfies(SolvedGrid)

(* solve has returned 1 for a puzzle that needed a guess and a backtrack *)
C2_Witness ==
    Returned(1) /\ maybacktrack /\ ncolor >= 2 /\ guesses > 0 /\ backtracks > 0

C5_CellCount ==
    \A p \in Pos :
        /\ cells[p].n = Cardinality(cells[p].bit)
        /\ cells[p].n >= 1
        /\ cells[p].bit \subseteq PuzColors

(* a state reached through a guess, a contradiction, an undo and the      *)
(* inversion of the guess, with history kept and cells still open          *)
C5_Witness ==
    /\ backtracks > 0 /\ history # <<>> /\ \E p \in Pos : cells[p].n >= 2

(***************************************************************************)
(* C6.  In every reachable state nsolved equals the number of cells whose  *)
(* n is 1.                                                                 *)
(***************************************************************************)
C6_NSolved == nsolved = Cardinality({p \in Pos : cells[p].n = 1})

(* a probe has just been undone: cells went back from n = 1 to n >= 2 *)
C6_Witness ==
    /\ pc = "probe_cell" /\ pcol > 0 /\ nsolved < mark.pre.nsolved + 1
    /\ probes > 0 /\ nsolved > 0 /\ nsolved < ncells

(***************************************************************************)
(* C7.  After logic_solve returns quiescent every line is at the fixed     *)
(* point of the line solver: the left-right-overlap solver run on any row  *)
(* or column finds no contradiction and changes no cell, and a second call *)
(* of logic_solve leaves the cells, nsolved and the job list as they are.  *)
(***************************************************************************)
Quiescent == pc = "logic" /\ job = <<>>

C7_FixedPoint ==
    Quiescent =>
        /\ \A ln \in Lines :
            /\ apply_lro(Cur, ln[1], ln[2]).ok
            /\ apply_lro(Cur, ln[1], ln[2]).M.cells = cells
            /\ apply_lro(Cur, ln[1], ln[2]).M.nsolved = nsolved
        /\ logic_solve(Cur, 0).ok
        /\ logic_solve(Cur, 0).M = Cur

(* logic_solve has returned quiescent with work done and cells left open *)
C7_Witness ==
    Quiescent /\ nlines > NRows + NCols /\ nsolved > 0 /\ nsolved < ncells

(***************************************************************************)
(* C8.  A probe that ends quiescent is fully rolled back: after            *)
(* guess_cell, logic_solve and undo the cells, nsolved and the history are *)
(* what they were immediately before the guess_cell, whatever branches     *)
(* were live; and when probe_cell returns >= 0 the grid is the grid at its *)
(* entry.                                                                  *)
(***************************************************************************)
ProbeEndsQuiescent ==
    pc = "logic" /\ job = <<>> /\ caller = "probe_cell" /\ nsolved # ncells

C8_ProbeRolledBack ==
    [][/\ ProbeEndsQuiescent =>
            /\ cells' = mark.pre.cells
            /\ nsolved' = mark.pre.nsolved
            /\ history' = mark.pre.history
       /\ (pc = "probe_cell" /\ pc' = "probe") =>
            /\ cells' = mark.entry.cells
            /\ nsolved' = mark.entry.nsolved
            /\ history' = mark.entry.history
       /\ (NoProgress /\ maybacktrack /\ mayprobe /\ ~useprobefn /\ probing) =>
            Snapshot(undo(Cur).M) = mark.pre]_vars

(* a quiescent probe below a committed guess has just been undone: the    *)
(* probe had solved further cells, and an older branch is still live       *)
C8_Witness ==
    /\ pc = "probe_cell" /\ foundbetter > 0 /\ bestnleft < ncells - nsolved - 1
    /\ HasBranch(history) /\ Snapshot(Cur) = mark.pre

(***************************************************************************)
(* C9.  Every speculative mutation made by a probe is restored on every    *)
(* exit path of the probe sequence, including the path where the probe     *)
(* hits a contradiction and the path where the probe accidentally solves   *)
(* the puzzle.  As claimed: whichever way a probe ends, every cell other   *)
(* than the probed one is what it was before the probe's guess.            *)
(***************************************************************************)
ProbeEnds ==
    caller = "probe_cell" /\ (pc = "probe_contra" \/ (pc = "logic" /\ job = <<>>))

C9_RestoredOnEveryExit ==
    [][ProbeEnds =>
        \A p \in Pos \ {ProbedCell} : cells'[p] = mark.pre.cells[p]]_vars

(***************************************************************************)
(* C9, as the code has it.  A probe that ends quiescent is undone          *)
(* entirely.  A probe that hits a contradiction is undone and its guess    *)
(* inverted: every other cell is restored, the probed cell loses the       *)
(* guessed colour.  A probe that solves the puzzle is not undone: the      *)
(* cells it set stay set, and its branch stays on the history, from where  *)
(* undo would restore the state before the guess.                          *)
(***************************************************************************)
C9_RestoredUnlessSolved ==
    [][/\ ProbeEndsQuiescent =>
            /\ cells' = mark.pre.cells
            /\ history' = mark.pre.history
       /\ (pc = "probe_contra" /\ caller = "probe_cell") =>
            /\ \A p \in Pos \ {ProbedCell} : cells'[p] = mark.pre.cells[p]
            /\ cells'[ProbedCell].bit = mark.pre.cells[ProbedCell].bit \ {pcol}
            /\ ~probing'
       /\ (ProbeEnds /\ pc = "logic" /\ nsolved = ncells) =>
            /\ cells' = cells /\ history' = history
            /\ cells' # mark.pre.cells
            /\ HasBranch(history')
            /\ Snapshot(undo(Cur).M) = mark.pre]_vars

(* probe has returned solved: the cells the probe set are still set *)
C9_Witness ==
    /\ Returned(1) /\ useprobefn /\ probes > 1 /\ nsolved = ncells
    /\ cells # mark.pre.cells /\ HasBranch(history)

(***************************************************************************)
(* C10.  Any colour that a probe sequence removes from a cell, either by   *)
(* inverting a probe that hit a contradiction or through merge_check, is   *)
(* absent from that cell in every actual solution of the puzzle.           *)
(***************************************************************************)
(* probe returns a fact: the inverted guess (probe.c 122-150) or the      *)
(* merged consequences (probe.c 162-173)                                   *)
ProbeFact == caller = "probe_cell" /\ pc' = "logic" /\ caller' = "solve"

(* the cell as it was before the probe that was inverted, or before       *)
(* merge_check                                                             *)
BeforeFact(p) ==
    IF pc = "probe_contra" THEN mark.pre.cells[p].bit ELSE cells[p].bit

C10_ProbeFactsSound ==
    [][ProbeFact =>
        \A g \in Solutions : \A p \in Pos :
            g[p] \in BeforeFact(p) => g[p] \in cells'[p].bit]_vars

(***************************************************************************)
(* C1.  With backtracking enabled solve returns 0 only if no full          *)
(* colouring of the grid that is consistent with the initial cell          *)
(* possibilities satisfies every row clue and every column clue.           *)
(***************************************************************************)
C1_UnsatOnlyIfNoSolution ==
    (Returned(0) /\ maybacktrack) => Solutions = {}

C1_Witness ==
    Returned(0) /\ maybacktrack /\ backtracks > 0

(***************************************************************************)
(* C4.  For every puzzle and every configuration solve eventually returns  *)
(* one of its terminal outcomes (solved, unsat, stuck): the loop of        *)
(* propagation, exhaustive check, probe or guess, and backtrack cannot     *)
(* cycle forever, and each call of logic_solve drains the job queue in     *)
(* finitely many line-solver invocations.                                  *)
(*                                                                         *)
(* The solver is a sequential program that always takes its next step:     *)
(* weak fairness of Next.  No action is enabled once solve has returned,   *)
(* one is enabled in every other reachable state and every step changes    *)
(* the state, so ENABLED <<Next>>_vars is Running and the fairness         *)
(* condition WF_vars(Next) is written out without ENABLED.                 *)
(***************************************************************************)
Running == pc # "done"

LiveSpec == Spec /\ ([]<>(~Running) \/ []<><<Next>>_vars)

C4_SolveReturns == <>(pc = "done" /\ ret \in {0, 1})

(* propagation at work while a probe is being tried *)
C4_Witness == pc = "logic" /\ caller = "probe_cell" /\ job # <<>> /\ backtracks > 0

(* the process never ends in exit(1) instead of a return *)
NeverExits == pc # "exit"

(***************************************************************************)
(* C11.  merge_check eliminates colour c from cell x only if every sibling *)
(* probe of the probed cell (one per colour the probed cell could take)    *)
(* ended in a state where c was not possible for x; a cell changed by only *)
(* some of the siblings, or first entered in the merge list by a later     *)
(* sibling, yields no elimination.                                         *)
(***************************************************************************)
MergeFact == pc = "probe_cell" /\ pc' = "logic" /\ caller' = "solve"

C11_MergeNeedsAllSiblings ==
    [][MergeFact =>
        /\ Len(mark.sib) = mark.entry.cells[ProbedCell].n
        /\ \A p \in Pos : \A c \in cells[p].bit \ cells'[p].bit :
              \A s \in 1 .. Len(mark.sib) : c \notin mark.sib[s].post[p].bit]_vars

C13_TopLevelMonotone ==
    [][history' = <<>> =>
        \A p \in Pos :
            /\ cells'[p].bit \subseteq TopOf(Cur)[p].bit
            /\ cells'[p].n = Cardinality(cells'[p].bit)]_vars

(* a probe sequence has ended in a fact at the top level, and the          *)
(* exhaustive check has been at work                                       *)
C13_Witness ==
    /\ history = <<>> /\ pc = "logic" /\ probes > 1
    /\ \E p \in Pos : cells[p].bit # mark.top[p].bit
    /\ \E p \in Pos : cells[p].n = 1

(***************************************************************************)
(* C14.  After any sequence of add, next and flush on the job queue each   *)
(* (direction, line-index) appears in the queue at most once, and a        *)
(* clue's jobindex is -1 exactly when its line is not queued and otherwise *)
(* is the position of its job; add on an already queued line changes       *)
(* nothing, and next returns a job of maximal priority among those queued. *)
(***************************************************************************)
JobLine(x) == <<job[x].dir, job[x].n>>

C14_JobQueue ==
    /\ \A x, y \in 1 .. Len(job) : JobLine(x) = JobLine(y) => x = y
    /\ \A ln \in Lines :
          /\ jobindex[ln] = -1 <=> ~\E x \in 1 .. Len(job) : JobLine(x) = ln
          /\ jobindex[ln] # -1 =>
                /\ jobindex[ln] \in 0 .. (Len(job) - 1)
                /\ JobLine(jobindex[ln] + 1) = ln
          /\ jobindex[ln] # -1 => add_job(Cur, ln[1], ln[2]) = Cur
    /\ job # <<>> =>
          LET r == next_job(Cur)
          IN  /\ \E x \in 1 .. Len(job) :
                    /\ JobLine(x) = <<r.dir, r.n>>
                    /\ \A y \in 1 .. Len(job) : job[y].priority <= job[x].priority
              /\ r.M.jobindex[<<r.dir, r.n>>] = -1
              /\ Len(r.M.job) = Len(job) - 1
    /\ flush_jobs(Cur).job = <<>>
    /\ \A ln \in Lines : flush_jobs(Cur).jobindex[ln] = -1

(* jobs of different priority are queued, a line that was taken off has    *)
(* been added again, and some line is not queued                           *)
C14_Witness ==
    /\ pc = "logic" /\ nlines > NRows + NCols
    /\ \E x, y \in 1 .. Len(job) : job[x].priority < job[y].priority
    /\ \E ln \in Lines : jobindex[ln] = -1
    /\ \E x \in 1 .. Len(job) : x < Len(job) /\ \A y \in 1 .. Len(job) : job[y].priority <= job[x].priority

(***************************************************************************)
(* C15.  A successful backtrack leaves every cell changed after the most   *)
(* recent branch restored to its value at the time of that branch, and     *)
(* leaves the branch cell with its pre-guess possible set minus exactly    *)
(* the guessed colour (non-empty); the job queue then holds exactly the    *)
(* lines crossing the inverted cell; backtrack reports failure if and      *)
(* only if the history contains no branch entry.                           *)
(***************************************************************************)
Backtracking == pc \in {"contra", "probe_contra"}

(* what cell p was when the most recent branch was made, read off the      *)
(* oldest history entry for p from that branch on                          *)
AtBranch(p) ==
    LET b == LastBranch(history)
        xs == {x \in b .. Len(history) : history[x].cell = p}
    IN  IF xs = {} THEN cells[p]
        ELSE LET x == CHOOSE x \in xs : \A y \in xs : x <= y
             IN  [n |-> history[x].n, bit |-> history[x].bit]

C15_Backtrack ==
    [][Backtracking =>
        IF HasBranch(history)
        THEN LET bcell == history[LastBranch(history)].cell
             IN  /\ pc' = "logic"
                 /\ backtracks' = backtracks + 1
                 /\ \A p \in Pos \ {bcell} : cells'[p] = AtBranch(p)
                 /\ Cardinality(cells[bcell].bit) = 1
                 /\ cells[bcell].bit \subseteq AtBranch(bcell).bit
                 /\ cells'[bcell].bit = AtBranch(bcell).bit \ cells[bcell].bit
                 /\ cells'[bcell].bit # {}
                 /\ cells'[bcell].n = Cardinality(cells'[bcell].bit)
                 /\ {<<job'[x].dir, job'[x].n>> : x \in 1 .. Len(job')}
                        = {<<D_ROW, bcell[1]>>, <<D_COL, bcell[2]>>}
                 /\ Len(job') = 2
                 /\ Len(history') \in {0, LastBranch(history)}
                 /\ \A x \in 1 .. Len(history') :
                       IF x < LastBranch(history) THEN history'[x] = history[x]
                       ELSE history'[x] = [cell |-> bcell, n |-> AtBranch(bcell).n,
                                           bit |-> AtBranch(bcell).bit, branch |-> FALSE]
        ELSE /\ pc' \in {"done", "exit"}
             /\ backtracks' = backtracks]_vars

(* a backtrack is about to undo a guess under which cells other than the   *)
(* guessed one were changed, with an older guess still live                *)
C15_Witness ==
    /\ Backtracking /\ HasBranch(history)
    /\ LastBranch(history) > 1
    /\ Len(history) > LastBranch(history) + 1

(***************************************************************************)
(* C16.  The exhaustive line check (try_everything) is invoked only when   *)
(* propagation has just returned quiescent, the puzzle is not fully        *)
(* solved, the option is enabled and the history is empty (no branch       *)
(* live); it is never run during a probe or below a committed guess, and   *)
(* when it eliminates at least one colour the driver returns to            *)
(* propagation before any guess or probe is made.                          *)
(*                                                                         *)
(* A run of try_everything that eliminates something is the one step that  *)
(* changes cells without a line being solved, a guess, a probe, a merge    *)
(* or a backtrack.                                                         *)
(***************************************************************************)
ExhaustiveHit ==
    /\ cells' # cells
    /\ nlines' = nlines /\ guesses' = guesses /\ probes' = probes
    /\ merges' = merges /\ backtracks' = backtracks
    /\ Len(history') >= Len(history)

C16_TryEverythingOnlyAtTop ==
    [][ExhaustiveHit =>
        /\ pc = "logic" /\ job = <<>> /\ caller = "solve"
        /\ nsolved < ncells
        /\ tryharder
        /\ history = <<>> /\ history' = <<>>
        /\ ~probing
        /\ pc' = "logic" /\ caller' = "solve" /\ job' # <<>>]_vars

(* propagation has stalled in a run that can guess, and the exhaustive     *)
(* check finds something to eliminate                                      *)
C16_Witness ==
    /\ Stalled /\ nsolved < ncells /\ maybacktrack /\ tryharder
    /\ try_everything(Cur).hits > 0

(***************************************************************************)
(* C17.  try_everything removes colour c from cell x only if, with x       *)
(* tentatively fixed to c, left_solve finds no placement on some line      *)
(* crossing x; every (cell, colour) pair not so eliminated is exactly as   *)
(* before the call once it returns (the tentative single-colour setting    *)
(* is always restored), the history stack is untouched, it stops           *)
(* eliminating from a cell as soon as one colour remains, and the          *)
(* returned count equals the number of colours removed.                    *)
(*                                                                         *)
(* Checked for the call made in every quiescent, unsolved state.  When     *)
(* cell x is tried, the cells before it in the scan are as the call        *)
(* leaves them and the cells after it are as the call found them.          *)
(***************************************************************************)
CellIndex(p) == CHOOSE x \in 1 .. Len(CellOrder) : CellOrder[x] = p

(* the grid at the moment cell p is tried with colour c *)
WhenTried(M, R, p, c) ==
    [M EXCEPT !.cells =
        [q \in Pos |-> IF q = p THEN [n |-> 1, bit |-> {c}]
                       ELSE IF CellIndex(q) < CellIndex(p) THEN R.cells[q]
                       ELSE M.cells[q]]]

RECURSIVE SumOver(_, _)
SumOver(S, f) ==
    IF S = {} THEN 0
    ELSE LET p == CHOOSE p \in S : TRUE IN f[p] + SumOver(S \ {p}, f)

TryEverythingOK(M) ==
    LET r == try_everything(M)
        R == r.M
        gone == [p \in Pos |-> M.cells[p].bit \ R.cells[p].bit]
    IN  /\ \A p \in Pos :
              /\ R.cells[p].bit \subseteq M.cells[p].bit
              /\ R.cells[p].n = Cardinality(R.cells[p].bit)
              /\ R.cells[p].n >= 1
              /\ \A c \in gone[p] : CrossingFails(WhenTried(M, R, p, c), p)
              /\ gone[p] # {} =>
                    /\ R.jobindex[<<D_ROW, p[1]>>] >= 0
                    /\ R.jobindex[<<D_COL, p[2]>>] >= 0
        /\ R.history = M.history
        /\ R.merge_list = M.merge_list
        /\ r.hits = SumOver(Pos, [p \in Pos |-> Cardinality(gone[p])])
        /\ R.nsolved = M.nsolved
              + Cardinality({p \in Pos : M.cells[p].n > 1 /\ R.cells[p].n = 1})

C17_TryEverything ==
    (pc = "logic" /\ job = <<>> /\ nsolved < ncells) => TryEverythingOK(Cur)

(* the call eliminates colours from two cells or more, below a live guess  *)
(* or at the top level                                                     *)
C17_Witness ==
    /\ pc = "logic" /\ job = <<>> /\ nsolved < ncells
    /\ try_everything(Cur).hits >= 2
    /\ \E p \in Pos : /\ cells[p].n > 1
                      /\ try_everything(Cur).M.cells[p] = cells[p]

(***************************************************************************)
(* C18.  probe_cell never makes a trial assignment (cell, c) when          *)
(* probepad[cell] already contains c (no guess_cell, no propagation,       *)
(* probes counter unchanged for that colour), and once any still-possible  *)
(* colour of the probed cell has been skipped this way, no merge_check     *)
(* elimination is applied for that cell's set of sibling probes.           *)
(***************************************************************************)
PadHit ==
    /\ pc = "probe_cell"
    /\ NextColor(Cur, ProbedCell, pcol) < ncolor
    /\ NextColor(Cur, ProbedCell, pcol) \in probepad[ProbedCell]

C18_PadSkips ==
    [][/\ PadHit =>
            /\ probes' = probes /\ nlines' = nlines
            /\ cells' = cells /\ nsolved' = nsolved
            /\ history' = history /\ job' = job
            /\ pc' = "probe_cell" /\ pcol' > NextColor(Cur, ProbedCell, pcol)
            /\ ~merging' /\ merge_list' = NoMerge
       /\ (pc = "probe_cell" /\ probes' # probes) =>
            \E c \in PuzColors \ probepad[ProbedCell] :
                /\ cells'[ProbedCell].bit = {c}
                /\ c \in cells[ProbedCell].bit
       /\ MergeFact =>
            \A c \in cells[ProbedCell].bit :
                \E s \in 1 .. Len(mark.sib) :
                    mark.sib[s].cell = ProbedCell /\ mark.sib[s].col = c]_vars

(* a colour of the probed cell is on the pad while merging is on for it *)
C18_Witness ==
    PadHit /\ merging /\ probes > 1

(***************************************************************************)
(* C19.  When a probe sequence returns a guess (probe returns 0), the      *)
(* returned (besti, bestj, bestc) is one (cell, colour) pair that was      *)
(* actually probed in this sequence and ended quiescent, its remaining     *)
(* count ncells - nsolved is the minimum over all quiescent probes of the  *)
(* sequence, and among equal minima it is the first one probed; the        *)
(* row/column outputs and the colour output belong to the same probe.      *)
(***************************************************************************)
C19_BestProbe ==
    pc = "probe_guess" =>
        \E s \in 1 .. Len(mark.seq) :
            /\ mark.seq[s].cell = <<besti, bestj>>
            /\ mark.seq[s].col = bestc
            /\ mark.seq[s].nleft = bestnleft
            /\ \A t \in 1 .. Len(mark.seq) : mark.seq[t].nleft >= mark.seq[s].nleft
            /\ \A t \in 1 .. (s - 1) : mark.seq[t].nleft > mark.seq[s].nleft

(* a sequence returns a guess that was not its first probe, with another   *)
(* probe as good as the one chosen                                         *)
C19_Witness ==
    /\ pc = "probe_guess"
    /\ <<mark.seq[1].cell, mark.seq[1].col>> # <<<<besti, bestj>>, bestc>>
    /\ \E s, t \in 1 .. Len(mark.seq) :
          s < t /\ mark.seq[s].nleft = bestnleft /\ mark.seq[t].nleft = bestnleft

(***************************************************************************)
(* C20.  When a probe of (cell, c) hits a contradiction, the probe         *)
(* sequence ends with a forced fact: on return every other cell holds its  *)
(* value from just before that probe, the probed cell's possible set is    *)
(* its pre-probe set minus exactly c, the lines crossing the probed cell   *)
(* are queued, probing is false, and the result is forced-fact (-1),       *)
(* never a guess.                                                          *)
(***************************************************************************)
ProbeContradicted == pc = "probe_contra" /\ caller = "probe_cell"

C20_ContradictionIsFact ==
    [][ProbeContradicted =>
        /\ \A p \in Pos \ {ProbedCell} : cells'[p] = mark.pre.cells[p]
        /\ pcol \in mark.pre.cells[ProbedCell].bit
        /\ cells'[ProbedCell].bit = mark.pre.cells[ProbedCell].bit \ {pcol}
        /\ cells'[ProbedCell].n = mark.pre.cells[ProbedCell].n - 1
        /\ nsolved' = mark.pre.nsolved + (IF cells'[ProbedCell].n = 1 THEN 1 ELSE 0)
        /\ {<<job'[x].dir, job'[x].n>> : x \in 1 .. Len(job')}
              = {<<D_ROW, pi>>, <<D_COL, pj>>}
        /\ ~probing'
        /\ ~merging' /\ merge_list' = NoMerge
        /\ pc' = "logic" /\ caller' = "solve"
        /\ <<besti', bestj', bestc'>> = <<besti, bestj, bestc>>
        /\ \A x \in 1 .. Len(history') :
              x > Len(mark.pre.history) => ~history'[x].branch
        /\ \A x \in 1 .. Len(mark.pre.history) : history'[x] = mark.pre.history[x]
        /\ Len(history') >= Len(mark.pre.history)]_vars

(* a probe below a committed guess has hit a contradiction after changing  *)
(* cells other than the probed one                                         *)
C20_Witness ==
    /\ ProbeContradicted
    /\ mark.pre.history # <<>>
    /\ \E p \in Pos \ {ProbedCell} : cells[p] # mark.pre.cells[p]

(***************************************************************************)
(* C21.  Each probe's trial assignment is recorded in the history as a     *)
(* non-branch frame, and only the guess that the caller commits after the  *)
(* probe sequence is recorded as a branch frame; undoing or backtracking   *)
(* a probe still unwinds exactly that probe and nothing older.  As         *)
(* claimed: the frame a trial assignment pushes is not a branch.           *)
(***************************************************************************)
TrialStep == probes' = probes + 1

GuessFrame(M, cell) ==
    [cell |-> cell, n |-> M.cells[cell].n, bit |-> M.cells[cell].bit, branch |-> TRUE]

C21_TrialFrameNotBranch ==
    [][TrialStep => ~history'[Len(history')].branch]_vars

(***************************************************************************)
(* C21, as the code has it.  guess_cell marks every guess as a branch      *)
(* point, a probe's trial assignment as much as the guess the caller       *)
(* commits after the sequence; that branch frame is what undo and          *)
(* backtrack stop at, so that undoing or backtracking a probe unwinds      *)
(* exactly that probe and nothing older.                                   *)
(***************************************************************************)
C21_EveryGuessIsBranch ==
    [][/\ TrialStep =>
            history' = Append(mark'.pre.history, GuessFrame(mark'.pre, <<pi', pj'>>))
       /\ pc = "probe_guess" =>
            history' = Append(history, GuessFrame(Cur, <<besti, bestj>>))
       /\ (guesses' = guesses + 1 /\ ~mayprobe /\ pc = "logic") =>
            /\ Len(history') = Len(history) + 1
            /\ history'[Len(history')].branch
            /\ \A x \in 1 .. Len(history) : history'[x] = history[x]
       /\ ProbeEndsQuiescent => history' = mark.pre.history
       /\ ProbeContradicted =>
            /\ Len(history') \in {0, Len(mark.pre.history) + 1}
            /\ \A x \in 1 .. Len(history') :
                  x <= Len(mark.pre.history) => history'[x] = mark.pre.history[x]]_vars

(* a probe is under way below a committed guess and has changed cells:     *)
(* two branch frames are on the history, the probe's being the later       *)
C21_Witness ==
    /\ caller = "probe_cell" /\ pc = "logic" /\ job # <<>>
    /\ Len(history) > Len(mark.pre.history) + 1
    /\ history[Len(mark.pre.history) + 1].branch
    /\ \E x \in 1 .. Len(mark.pre.history) : mark.pre.history[x].branch

(***************************************************************************)
(* C22.  Whenever a sibling probe ends in a contradiction or solves the    *)
(* puzzle, the merge buffer's contributions are discarded before the       *)
(* probe sequence ends, in both the probe()/probe_cell() implementation    *)
(* and the inline probe sequence of solve(): no later merge_check ever     *)
(* acts on entries accumulated from a sibling set that was abandoned this  *)
(* way.                                                                    *)
(***************************************************************************)
(* a probe of probe_cell, or of the inline sequence, ends abandoned *)
ProbeAbandoned ==
    \/ ProbeContradicted
    \/ caller = "probe_cell" /\ pc = "logic" /\ job = <<>> /\ nsolved = ncells
    \/ ~useprobefn /\ probing /\ pc = "contra"
    \/ ~useprobefn /\ probing /\ Stalled /\ nsolved = ncells

C22_AbandonedMergeDiscarded ==
    [][/\ ProbeAbandoned => merge_list' = NoMerge /\ merge_no' = 0
       /\ merges' = merges + 1 => merge_no = mark.pre.cells[<<pi, pj>>].n]_vars

(***************************************************************************)
(* C23.  At the start of every probe sequence the probe pad is empty for   *)
(* every cell and the merge buffer holds no entries, whatever the way the  *)
(* previous probe sequence ended (guess returned, forced fact by           *)
(* contradiction or merge, or puzzle solved); the probing flag is true     *)
(* exactly from that start until the sequence returns and is false on      *)
(* every return.                                                           *)
(***************************************************************************)
(* probe() is running *)
InProbeFn ==
    \/ pc \in {"probe", "probe_cell", "probe_contra"}
    \/ pc = "logic" /\ caller = "probe_cell"

(* the inline sequence of solve() starts: stuck, and no probe in progress *)
InlineStart == NoProgress /\ maybacktrack /\ mayprobe /\ ~useprobefn /\ ~probing

SequenceStartsClean ==
    [][/\ pc = "probe_enter" =>
            /\ \A p \in Pos : probepad'[p] = {}
            /\ merge_list' = NoMerge /\ merge_no' = 0
            /\ probing'
       /\ InlineStart => merge_list = NoMerge /\ merge_no = 0]_vars

ProbingFlagFn == useprobefn => (probing <=> InProbeFn)

C23_SequenceStart ==
    SequenceStartsClean /\ []ProbingFlagFn

(***************************************************************************)
(* C24.  With probe_level > 1 the neighbourhood pass visits history        *)
(* entries from the most recent one backwards up to and including the most *)
(* recent branch entry and no older entry, probes only in-grid orthogonal  *)
(* neighbours that are unsolved (n >= 2), and runs before the full pass;   *)
(* with probe_level <= 1 or an empty history it probes nothing and only    *)
(* the full pass over cells with at least two solved-or-edge neighbours    *)
(* runs.                                                                   *)
(***************************************************************************)
(* probe() picks the next cell, or finds that there is none left *)
ScanStep == pc = "probe" /\ pc' # "probe"

(* the history entries the neighbourhood pass walks, as positions from 1 *)
WalkEntries ==
    IF HasBranch(history) THEN LastBranch(history) .. Len(history) ELSE {}

(* the cells next to entry x of M's history that probe() would call        *)
(* probe_cell on                                                           *)
OpenNeighborsOf(M, x) ==
    {nb \in {Neighbor(M.history[x].cell[1], M.history[x].cell[2], neigh) :
                neigh \in 0 .. 3} :
        nb # <<>> /\ M.cells[nb].n >= 2}

OpenNeighbors(x) == OpenNeighborsOf(Cur, x)

(* the neighbourhood pass on M from entry k, neighbour neigh: the set of   *)
(* <<k, i, j>> it calls probe_cell with when no probe ends the sequence    *)
RECURSIVE NeighbourhoodCells(_, _, _)
NeighbourhoodCells(M, k, neigh) ==
    LET nx == ProbeNext(M, 1, k, neigh, 0, 0)
    IN  IF nx.kind = "cell" /\ nx.pass = 1
        THEN {<<nx.k, nx.i, nx.j>>} \cup NeighbourhoodCells(M, nx.k, nx.neigh)
        ELSE {}

(* the state with one more guess, on the solved cell c, below the history *)
OlderGuess(c) ==
    [Cur EXCEPT !.history = <<[history[1] EXCEPT !.cell = c]>> \o history]

(* probe() starts below a guess; were an older guess on any solved cell    *)
(* still live under it, the pass would walk exactly the entries down to    *)
(* the newest branch                                                       *)
WalkStopsAtBranch ==
    (pc = "probe_enter" /\ probelevel > 1 /\ history # <<>>) =>
        \A c \in {p \in Pos : cells[p].n = 1} :
            LET M == OlderGuess(c)
                walk == NeighbourhoodCells(M, Len(M.history) - 1, 0)
            IN  /\ \A t \in walk : t[1] + 1 >= LastBranch(M.history)
                /\ {<<t[2], t[3]>> : t \in walk} =
                       UNION {OpenNeighborsOf(M, x) :
                                x \in LastBranch(M.history) .. Len(M.history)}

(* probe_cell went through the colours of the cell in this sequence *)
ProbedInSequence(cell) ==
    \A c \in cells[cell].bit :
        \/ c \in probepad[cell]
        \/ \E x \in 1 .. Len(mark.seq) : mark.seq[x].cell = cell /\ mark.seq[x].col = c

C24_NeighbourhoodPass ==
    [][ScanStep =>
         /\ (pc' = "probe_cell" /\ ppass' = 1) =>
               /\ probelevel > 1 /\ ppass = 1
               /\ pk' + 1 \in WalkEntries
               /\ <<pi', pj'>> \in OpenNeighbors(pk' + 1)
               /\ \A x \in WalkEntries : x > pk' + 1 =>
                     \A nb \in OpenNeighbors(x) : ProbedInSequence(nb)
         /\ (pc' = "probe_cell" /\ ppass' = 2) =>
               /\ cells[<<pi', pj'>>].n >= 2
               /\ count_neighbors(Cur, pi', pj') >= 2
         /\ ppass' = 2 =>
               \A x \in WalkEntries : probelevel > 1 =>
                   \A nb \in OpenNeighbors(x) : ProbedInSequence(nb)
         /\ (probelevel <= 1 \/ history = <<>>) => ppass' = 2]_vars
    /\ []WalkStopsAtBranch

(* the neighbourhood pass below a committed guess calls probe_cell on a    *)
(* neighbour, where an older guess would have unsolved neighbours that the *)
(* walk down to the branch does not reach                                  *)
C24_Witness ==
    /\ pc = "probe_cell" /\ ppass = 1 /\ guesses > 0
    /\ \E c \in {p \in Pos : cells[p].n = 1} :
          OpenNeighborsOf(OlderGuess(c), 1) \ UNION {OpenNeighbors(x) : x \in WalkEntries} # {}

(***************************************************************************)
(* C25.  Whenever the history stack is non-empty its oldest entry is a     *)
(* branch entry: no cell mutation is recorded before the first guess,      *)
(* recording is active for every mutation made while at least one branch   *)
(* is live, and therefore no unrecorded mutation (such as those of         *)
(* try_everything) can occur while a branch is live.                       *)
(***************************************************************************)
OldestIsBranch == history # <<>> => history[1].branch

(* the inline sequence of solve() goes on: it undoes the probe it has just *)
(* rated before it does anything else                                      *)
InlineNext == NoProgress /\ maybacktrack /\ mayprobe /\ ~useprobefn /\ probing

(* the step undoes the newest guess: the history is not just added to, or  *)
(* the inline sequence takes its probe back and may push the same entry    *)
Unwinds ==
    \/ Len(history') < Len(history)
    \/ SubSeq(history', 1, Len(history)) # history
    \/ InlineNext

(* the number of entries at the bottom of the history that a step keeps *)
KeptEntries ==
    IF Unwinds /\ HasBranch(history) THEN LastBranch(history) - 1 ELSE Len(history)

(* what cell p held when the history was k entries long *)
ValueAt(p, k) ==
    LET xs == {x \in (k + 1) .. Len(history) : history[x].cell = p}
    IN  IF xs = {} THEN cells[p]
        ELSE LET x0 == CHOOSE x \in xs : \A y \in xs : x <= y
             IN  [n |-> history[x0].n, bit |-> history[x0].bit]

(* the step recorded its change of cell p above the k entries it kept *)
RecordedAbove(p, k) ==
    LET xs == {x \in (k + 1) .. Len(history') : history'[x].cell = p}
    IN  /\ xs # {}
        /\ LET x0 == CHOOSE x \in xs : \A y \in xs : x <= y
           IN  history'[x0].n = ValueAt(p, k).n /\ history'[x0].bit = ValueAt(p, k).bit

C25_RecordingWhileBranchLive ==
    /\ []OldestIsBranch
    /\ [][/\ HasBranch(SubSeq(history, 1, KeptEntries)) =>
               \A p \in Pos : cells'[p] # ValueAt(p, KeptEntries) =>
                                  RecordedAbove(p, KeptEntries)
          /\ (cells' # cells /\ history' = history /\ ~InlineNext) => history = <<>>
          /\ (Stalled /\ Exhaust.hits > 0) => history = <<>>]_vars

(* line solving below a live guess has recorded a change and stalled, with *)
(* the exhaustive check asked for                                          *)
C25_Witness ==
    /\ tryharder /\ Stalled /\ nsolved # ncells
    /\ Len(history) > 1 /\ ~history[Len(history)].branch

(***************************************************************************)
(* C26.  Whenever a probe sequence is started on a rectangular grid that   *)
(* still has an unsolved cell, the full pass finds at least one candidate  *)
(* (an unsolved cell with at least two solved-or-edge neighbours) and the  *)
(* first candidate colour is never skipped by the freshly cleared probe    *)
(* pad, so the 'found no cells to probe on' internal-error exit is         *)
(* unreachable from solve.                                                 *)
(***************************************************************************)
Candidates ==
    {p \in Pos : cells[p].n >= 2 /\ count_neighbors(Cur, p[1], p[2]) >= 2}

(* a colour is on the pad only after a probe of this sequence was rated *)
PadAfterRating ==
    (InProbeFn /\ \E p \in Pos : probepad[p] # {}) => bestnleft < INT_MAX

C26_CandidateExists ==
    /\ []NeverExits
    /\ []PadAfterRating
    /\ [][/\ (pc = "probe_enter" \/ InlineStart) => nsolved < ncells /\ Candidates # {}
          /\ (pc = "probe_cell" /\ mark.seq = <<>>) => probes' = probes + 1]_vars

(* the first probe of a sequence is under way on a candidate of the full   *)
(* pass, while other unsolved cells are no candidates                      *)
C26_Witness ==
    /\ pc = "logic" /\ caller = "probe_cell" /\ mark.seq = <<>>
    /\ ppass = 2 /\ probelevel > 1 /\ guesses > 0
    /\ \E p \in Pos : mark.pre.cells[p].n >= 2 /\ count_neighbors(mark.pre, p[1], p[2]) < 2

(***************************************************************************)
(* C27.  Every call of guess_cell(cell, c) made by the driver (a probe's   *)
(* trial assignment, the committed best probe guess, and the heuristic     *)
(* guess from pick_a_cell/pick_color) targets a cell that is unsolved at   *)
(* that moment (n >= 2) with c in its possible set, so guess_cell's        *)
(* unconditional nsolved increment and single-colour assignment never      *)
(* double-count a solved cell or assign an excluded colour.                *)
(***************************************************************************)
(* the driver calls guess_cell in this step: a trial of a probe, or a      *)
(* guess that is counted and is not the inversion made by backtrack        *)
GuessCall ==
    \/ TrialStep
    \/ guesses' = guesses + 1 /\ pc \notin {"contra", "probe_contra"}

(* the entry guess_cell has pushed holds what the cell was when called *)
Guessed == history'[Len(history')]

C27_GuessOnOpenCell ==
    [][/\ GuessCall =>
            /\ history' # <<>> /\ Guessed.branch
            /\ Guessed.n >= 2
            /\ cells'[Guessed.cell].n = 1
            /\ cells'[Guessed.cell].bit \subseteq Guessed.bit
            /\ nsolved' = Cardinality({p \in Pos : cells'[p].n = 1})
       /\ (TrialStep /\ useprobefn) =>
            /\ cells[ProbedCell].n >= 2 /\ pcol' \in cells[ProbedCell].bit
            /\ Guessed.cell = ProbedCell /\ cells'[ProbedCell].bit = {pcol'}
       /\ pc = "probe_guess" =>
            /\ cells[<<besti, bestj>>].n >= 2 /\ bestc \in cells[<<besti, bestj>>].bit
            /\ Guessed.cell = <<besti, bestj>> /\ cells'[<<besti, bestj>>].bit = {bestc}]_vars

(* the best probe of a sequence of several trials has just been committed *)
C27_Witness ==
    /\ pc = "logic" /\ caller = "solve" /\ useprobefn
    /\ guesses > 0 /\ probes > 2
    /\ history # <<>> /\ history[Len(history)].branch

====
